---- MODULE Spec2Model ----
(***************************************************************************)
(* Ratio engine of the financial dashboard (app/utils/financial.ts):       *)
(* eleven compute functions (two operands -> ratio, or a thrown Error) and *)
(* eleven judgment functions (ratio -> judgment record).                   *)
(*                                                                         *)
(* A JavaScript number is modelled as an exact rational [n, d] in lowest   *)
(* terms with d > 0; NaN is 0/0 and the quotient of a non-zero number by 0 *)
(* is +/-1/0 (Infinity).  The rounding of IEEE-754 doubles and the sign of *)
(* zero are outside this model.                                            *)
(* Japanese string literals of the source are written in romaji, because   *)
(* a TLA+ string is ASCII; equal source strings get equal transliterations.*)
(***************************************************************************)
EXTENDS Integers, Sequences, FiniteSets, TLC

\* ------------------------------------------------------------------------
\* Bounds of the model
\* ------------------------------------------------------------------------

\* operands of the compute functions are the tenths -MaxOperand/10 .. MaxOperand/10
MaxOperand == 20

\* ratios given directly to a judgment function are the tenths
\* -MaxRatio/10 .. MaxRatio/10 (the largest threshold of the source is 200)
MaxRatio == 2050

\* ------------------------------------------------------------------------
\* JavaScript numbers (finite values) and the operators the source uses
\* ------------------------------------------------------------------------

Abs(x) == IF x < 0 THEN -x ELSE x

RECURSIVE GCD(_, _)
GCD(a, b) == IF b = 0 THEN a ELSE GCD(b, a % b)

\* the number n/d in lowest terms with a positive denominator; a zero
\* denominator gives NaN (0/0) or an infinity (1/0, -1/0)
Rat(n, d) ==
    IF d = 0
    THEN [n |-> IF n > 0 THEN 1 ELSE IF n < 0 THEN -1 ELSE 0, d |-> 0]
    ELSE LET g == GCD(Abs(n), Abs(d))
             s == IF d < 0 THEN -1 ELSE 1
         IN  [n |-> (s * n) \div g, d |-> (s * d) \div g]

\* the value NaN
NaN == [n |-> 0, d |-> 0]

\* Number.isNaN(x)
IsNaN(x) == x.n = 0 /\ x.d = 0

\* both operands of a comparison are numbers: a comparison with NaN is false
Ordered(a, b) == ~IsNaN(a) /\ ~IsNaN(b)

\* an integer literal of the source, e.g. 100
Num(k) == Rat(k, 1)

\* a decimal literal of the source with one fractional digit, e.g. 0.7 = Tenths(7)
Tenths(k) == Rat(k, 10)

\* a < b
Lt(a, b) ==
    /\ Ordered(a, b)
    /\ IF a.d = 0 /\ b.d = 0 THEN a.n < b.n ELSE a.n * b.d < b.n * a.d

\* a <= b
Le(a, b) ==
    /\ Ordered(a, b)
    /\ IF a.d = 0 /\ b.d = 0 THEN a.n <= b.n ELSE a.n * b.d <= b.n * a.d

\* a >= b
Ge(a, b) ==
    /\ Ordered(a, b)
    /\ IF a.d = 0 /\ b.d = 0 THEN a.n >= b.n ELSE a.n * b.d >= b.n * a.d

\* a > b
Gt(a, b) ==
    /\ Ordered(a, b)
    /\ IF a.d = 0 /\ b.d = 0 THEN a.n > b.n ELSE a.n * b.d > b.n * a.d

\* a / b
Div(a, b) == Rat(a.n * b.d, a.d * b.n)

\* a * b
Mul(a, b) == Rat(a.n * b.n, a.d * b.d)

\* a - b
Sub(a, b) == Rat(a.n * b.d - b.n * a.d, a.d * b.d)

\* ------------------------------------------------------------------------
\* Outcome of a call
\* ------------------------------------------------------------------------

\* `return x;` of a compute function
Return(x) == [kind |-> "return", value |-> x]

\* `throw new Error(msg);`
Throw(msg) == [kind |-> "throw", message |-> msg]

\* `return { level: ..., ... };` of a judgment function
Judged(j) == [kind |-> "judgment", judgment |-> j]

\* ------------------------------------------------------------------------
\* Compute functions
\* ------------------------------------------------------------------------

calculatePSR(marketCap, revenue) ==
    IF Le(revenue, Num(0))
    THEN Throw("Revenue must be greater than 0")
    ELSE Return(Div(marketCap, revenue))

\* calculateCurrentRatio without the factor 100
calculateCurrentRatio_fraction(currentAssets, currentLiabilities) ==
    IF Le(currentLiabilities, Num(0))
    THEN Throw("Current liabilities must be greater than 0")
    ELSE Return(Div(currentAssets, currentLiabilities))

calculateCurrentRatio(currentAssets, currentLiabilities) ==
    IF Le(currentLiabilities, Num(0))
    THEN Throw("Current liabilities must be greater than 0")
    ELSE Return(Mul(Div(currentAssets, currentLiabilities), Num(100)))

calculateEquityRatio(equity, totalAssets) ==
    IF Le(totalAssets, Num(0))
    THEN Throw("Total assets must be greater than 0")
    ELSE Return(Mul(Div(equity, totalAssets), Num(100)))

calculateCapExRatio(capex, depreciation) ==
    IF Le(depreciation, Num(0))
    THEN Throw("Depreciation must be greater than 0")
    ELSE Return(Div(capex, depreciation))

\* calculateRevenueGrowth rejecting a non-positive current revenue as well
calculateRevenueGrowth_guardBoth(currentRevenue, pastRevenue) ==
    IF Le(pastRevenue, Num(0)) \/ Le(currentRevenue, Num(0))
    THEN Throw("Past revenue must be greater than 0")
    ELSE Return(Mul(Div(Sub(currentRevenue, pastRevenue), pastRevenue), Num(100)))

calculateRevenueGrowth(currentRevenue, pastRevenue) ==
    IF Le(pastRevenue, Num(0))
    THEN Throw("Past revenue must be greater than 0")
    ELSE Return(Mul(Div(Sub(currentRevenue, pastRevenue), pastRevenue), Num(100)))

\* calculateROE returning a sentinel ratio 0 instead of throwing
calculateROE_sentinel(netIncome, equity) ==
    IF Le(equity, Num(0))
    THEN Return(Num(0))
    ELSE Return(Mul(Div(netIncome, equity), Num(100)))

calculateROE(netIncome, equity) ==
    IF Le(equity, Num(0))
    THEN Throw("Equity must be greater than 0")
    ELSE Return(Mul(Div(netIncome, equity), Num(100)))

calculateROA(netIncome, totalAssets) ==
    IF Le(totalAssets, Num(0))
    THEN Throw("Total assets must be greater than 0")
    ELSE Return(Mul(Div(netIncome, totalAssets), Num(100)))

calculateOperatingMargin(operatingIncome, revenue) ==
    IF Le(revenue, Num(0))
    THEN Throw("Revenue must be greater than 0")
    ELSE Return(Mul(Div(operatingIncome, revenue), Num(100)))

calculatePER(marketCap, netIncome) ==
    IF Le(netIncome, Num(0))
    THEN Throw("Net income must be greater than 0")
    ELSE Return(Div(marketCap, netIncome))

\* calculatePBR scaled to a percentage
calculatePBR_percent(marketCap, equity) ==
    IF Le(equity, Num(0))
    THEN Throw("Equity must be greater than 0")
    ELSE Return(Mul(Div(marketCap, equity), Num(100)))

calculatePBR(marketCap, equity) ==
    IF Le(equity, Num(0))
    THEN Throw("Equity must be greater than 0")
    ELSE Return(Div(marketCap, equity))

\* calculateDividendYield without the factor 100
calculateDividendYield_fraction(annualDividend, stockPrice) ==
    IF Le(stockPrice, Num(0))
    THEN Throw("Stock price must be greater than 0")
    ELSE Return(Div(annualDividend, stockPrice))

calculateDividendYield(annualDividend, stockPrice) ==
    IF Le(stockPrice, Num(0))
    THEN Throw("Stock price must be greater than 0")
    ELSE Return(Mul(Div(annualDividend, stockPrice), Num(100)))

\* ------------------------------------------------------------------------
\* Level enumerations of the judgment types
\* ------------------------------------------------------------------------

PSRJudgmentLevel == {"undervalued", "fair", "high", "very-high"}

SafetyJudgmentLevel == {"excellent", "good", "fair", "warning"}

GrowthJudgmentLevel == {"strong", "moderate", "stable", "declining"}

ProfitabilityJudgmentLevel == {"excellent", "good", "fair", "poor"}

ValuationJudgmentLevel == {"undervalued", "fair", "overvalued", "very-overvalued"}

\* ------------------------------------------------------------------------
\* Judgment functions: the first comparison that holds decides the band,
\* the last band is the fall-through
\* ------------------------------------------------------------------------

\* getPSRJudgment comparing with <= instead of <
getPSRJudgment_inclusive(psr) ==
    IF Le(psr, Num(1))
    THEN Judged([level |-> "undervalued",
                 color |-> "green",
                 borderColor |-> "border-green-500",
                 textColor |-> "text-green-700",
                 darkTextColor |-> "dark:text-green-400",
                 title |-> "wariyasu",
                 description |-> "jika sougaku ga uriagedaka wo shitamawatte ori, shijou no kitaichi wa hikaeme"])
    ELSE IF Le(psr, Num(2))
    THEN Judged([level |-> "fair",
                 color |-> "yellow",
                 borderColor |-> "border-yellow-500",
                 textColor |-> "text-yellow-700",
                 darkTextColor |-> "dark:text-yellow-400",
                 title |-> "tekisei - yaya takame",
                 description |-> "jika sougaku wa uriagedaka to douteido, hyoujunteki na hyouka"])
    ELSE IF Le(psr, Num(5))
    THEN Judged([level |-> "high",
                 color |-> "orange",
                 borderColor |-> "border-orange-500",
                 textColor |-> "text-orange-700",
                 darkTextColor |-> "dark:text-orange-400",
                 title |-> "kouseichou kitai",
                 description |-> "shijou wa shourai no seichou wo mikonde iru"])
    ELSE Judged([level |-> "very-high",
                 color |-> "red",
                 borderColor |-> "border-red-500",
                 textColor |-> "text-red-700",
                 darkTextColor |-> "dark:text-red-400",
                 title |-> "hijou ni takai kitaichi",
                 description |-> "kouseichou kigyou mata wa baburu-teki hyouka no kanousei"])

getPSRJudgment(psr) ==
    IF Lt(psr, Num(1))
    THEN Judged([level |-> "undervalued",
                 color |-> "green",
                 borderColor |-> "border-green-500",
                 textColor |-> "text-green-700",
                 darkTextColor |-> "dark:text-green-400",
                 title |-> "wariyasu",
                 description |-> "jika sougaku ga uriagedaka wo shitamawatte ori, shijou no kitaichi wa hikaeme"])
    ELSE IF Lt(psr, Num(2))
    THEN Judged([level |-> "fair",
                 color |-> "yellow",
                 borderColor |-> "border-yellow-500",
                 textColor |-> "text-yellow-700",
                 darkTextColor |-> "dark:text-yellow-400",
                 title |-> "tekisei - yaya takame",
                 description |-> "jika sougaku wa uriagedaka to douteido, hyoujunteki na hyouka"])
    ELSE IF Lt(psr, Num(5))
    THEN Judged([level |-> "high",
                 color |-> "orange",
                 borderColor |-> "border-orange-500",
                 textColor |-> "text-orange-700",
                 darkTextColor |-> "dark:text-orange-400",
                 title |-> "kouseichou kitai",
                 description |-> "shijou wa shourai no seichou wo mikonde iru"])
    ELSE Judged([level |-> "very-high",
                 color |-> "red",
                 borderColor |-> "border-red-500",
                 textColor |-> "text-red-700",
                 darkTextColor |-> "dark:text-red-400",
                 title |-> "hijou ni takai kitaichi",
                 description |-> "kouseichou kigyou mata wa baburu-teki hyouka no kanousei"])

\* getCurrentRatioJudgment comparing with > instead of >=
getCurrentRatioJudgment_exclusive(ratio) ==
    IF Gt(ratio, Num(200))
    THEN Judged([level |-> "excellent",
                 borderColor |-> "border-green-500",
                 textColor |-> "text-green-700",
                 darkTextColor |-> "dark:text-green-400",
                 title |-> "yuuryou",
                 description |-> "tankiteki na zaimu anteisei ga hijou ni takai"])
    ELSE IF Gt(ratio, Num(150))
    THEN Judged([level |-> "good",
                 borderColor |-> "border-blue-500",
                 textColor |-> "text-blue-700",
                 darkTextColor |-> "dark:text-blue-400",
                 title |-> "ryoukou",
                 description |-> "jigyou unei ni juubun na ryuudousei ga aru"])
    ELSE IF Gt(ratio, Num(100))
    THEN Judged([level |-> "fair",
                 borderColor |-> "border-yellow-500",
                 textColor |-> "text-yellow-700",
                 darkTextColor |-> "dark:text-yellow-400",
                 title |-> "futsuu",
                 description |-> "saiteigen no ryuudousei baffaa ari"])
    ELSE Judged([level |-> "warning",
                 borderColor |-> "border-red-500",
                 textColor |-> "text-red-700",
                 darkTextColor |-> "dark:text-red-400",
                 title |-> "youchuui",
                 description |-> "ryuudou fusai ga ryuudou shisan wo uwamawatte ori, ryuudousei ni kenen"])

getCurrentRatioJudgment(ratio) ==
    IF Ge(ratio, Num(200))
    THEN Judged([level |-> "excellent",
                 borderColor |-> "border-green-500",
                 textColor |-> "text-green-700",
                 darkTextColor |-> "dark:text-green-400",
                 title |-> "yuuryou",
                 description |-> "tankiteki na zaimu anteisei ga hijou ni takai"])
    ELSE IF Ge(ratio, Num(150))
    THEN Judged([level |-> "good",
                 borderColor |-> "border-blue-500",
                 textColor |-> "text-blue-700",
                 darkTextColor |-> "dark:text-blue-400",
                 title |-> "ryoukou",
                 description |-> "jigyou unei ni juubun na ryuudousei ga aru"])
    ELSE IF Ge(ratio, Num(100))
    THEN Judged([level |-> "fair",
                 borderColor |-> "border-yellow-500",
                 textColor |-> "text-yellow-700",
                 darkTextColor |-> "dark:text-yellow-400",
                 title |-> "futsuu",
                 description |-> "saiteigen no ryuudousei baffaa ari"])
    ELSE Judged([level |-> "warning",
                 borderColor |-> "border-red-500",
                 textColor |-> "text-red-700",
                 darkTextColor |-> "dark:text-red-400",
                 title |-> "youchuui",
                 description |-> "ryuudou fusai ga ryuudou shisan wo uwamawatte ori, ryuudousei ni kenen"])

\* getEquityRatioJudgment with the title of the excellent band pasted into the good band
getEquityRatioJudgment_copiedTitle(ratio) ==
    IF Ge(ratio, Num(50))
    THEN Judged([level |-> "excellent",
                 borderColor |-> "border-green-500",
                 textColor |-> "text-green-700",
                 darkTextColor |-> "dark:text-green-400",
                 title |-> "yuuryou",
                 description |-> "zaimuteki jiritsusei ga hijou ni takai"])
    ELSE IF Ge(ratio, Num(40))
    THEN Judged([level |-> "good",
                 borderColor |-> "border-blue-500",
                 textColor |-> "text-blue-700",
                 darkTextColor |-> "dark:text-blue-400",
                 title |-> "yuuryou",
                 description |-> "kyouko na zaimu kiban wo motsu"])
    ELSE IF Ge(ratio, Num(20))
    THEN Judged([level |-> "fair",
                 borderColor |-> "border-yellow-500",
                 textColor |-> "text-yellow-700",
                 darkTextColor |-> "dark:text-yellow-400",
                 title |-> "futsuu",
                 description |-> "chuuteido no zaimu anteisei"])
    ELSE Judged([level |-> "warning",
                 borderColor |-> "border-red-500",
                 textColor |-> "text-red-700",
                 darkTextColor |-> "dark:text-red-400",
                 title |-> "youchuui",
                 description |-> "kariirekin e no izondo ga takai"])

getEquityRatioJudgment(ratio) ==
    IF Ge(ratio, Num(50))
    THEN Judged([level |-> "excellent",
                 borderColor |-> "border-green-500",
                 textColor |-> "text-green-700",
                 darkTextColor |-> "dark:text-green-400",
                 title |-> "yuuryou",
                 description |-> "zaimuteki jiritsusei ga hijou ni takai"])
    ELSE IF Ge(ratio, Num(40))
    THEN Judged([level |-> "good",
                 borderColor |-> "border-blue-500",
                 textColor |-> "text-blue-700",
                 darkTextColor |-> "dark:text-blue-400",
                 title |-> "ryoukou",
                 description |-> "kyouko na zaimu kiban wo motsu"])
    ELSE IF Ge(ratio, Num(20))
    THEN Judged([level |-> "fair",
                 borderColor |-> "border-yellow-500",
                 textColor |-> "text-yellow-700",
                 darkTextColor |-> "dark:text-yellow-400",
                 title |-> "futsuu",
                 description |-> "chuuteido no zaimu anteisei"])
    ELSE Judged([level |-> "warning",
                 borderColor |-> "border-red-500",
                 textColor |-> "text-red-700",
                 darkTextColor |-> "dark:text-red-400",
                 title |-> "youchuui",
                 description |-> "kariirekin e no izondo ga takai"])

getCapExRatioJudgment(ratio) ==
    IF Ge(ratio, Tenths(15))
    THEN Judged([level |-> "strong",
                 borderColor |-> "border-green-500",
                 textColor |-> "text-green-700",
                 darkTextColor |-> "dark:text-green-400",
                 title |-> "sekkyoku toushi",
                 description |-> "seichou to shisan koushin ni sekkyokuteki ni toushi shite iru"])
    ELSE IF Ge(ratio, Tenths(10))
    THEN Judged([level |-> "moderate",
                 borderColor |-> "border-blue-500",
                 textColor |-> "text-blue-700",
                 darkTextColor |-> "dark:text-blue-400",
                 title |-> "tekisei toushi",
                 description |-> "shisan wo genjou reberu de iji shite iru"])
    ELSE IF Ge(ratio, Tenths(7))
    THEN Judged([level |-> "stable",
                 borderColor |-> "border-yellow-500",
                 textColor |-> "text-yellow-700",
                 darkTextColor |-> "dark:text-yellow-400",
                 title |-> "hoshuteki",
                 description |-> "shinki toushi ga genteiteki, shisan beesu ga shukushou keikou no kanousei"])
    ELSE Judged([level |-> "declining",
                 borderColor |-> "border-red-500",
                 textColor |-> "text-red-700",
                 darkTextColor |-> "dark:text-red-400",
                 title |-> "toushi busoku",
                 description |-> "shisan beesu wo iji suru ni wa toushi ga fujuubun"])

\* getRevenueGrowthJudgment treating a growth rate of 0 as declining
getRevenueGrowthJudgment_zeroDeclining(growthRate) ==
    IF Ge(growthRate, Num(50))
    THEN Judged([level |-> "strong",
                 borderColor |-> "border-green-500",
                 textColor |-> "text-green-700",
                 darkTextColor |-> "dark:text-green-400",
                 title |-> "kouseichou",
                 description |-> "4 nenkan de kencho na uriagedaka kakudai"])
    ELSE IF Ge(growthRate, Num(20))
    THEN Judged([level |-> "moderate",
                 borderColor |-> "border-blue-500",
                 textColor |-> "text-blue-700",
                 darkTextColor |-> "dark:text-blue-400",
                 title |-> "kenjitsu na seichou",
                 description |-> "kenzen na uriagedaka seichou kidou"])
    ELSE IF Gt(growthRate, Num(0))
    THEN Judged([level |-> "stable",
                 borderColor |-> "border-yellow-500",
                 textColor |-> "text-yellow-700",
                 darkTextColor |-> "dark:text-yellow-400",
                 title |-> "antei",
                 description |-> "uriagedaka wo iji mata wa bizou"])
    ELSE Judged([level |-> "declining",
                 borderColor |-> "border-red-500",
                 textColor |-> "text-red-700",
                 darkTextColor |-> "dark:text-red-400",
                 title |-> "genshou keikou",
                 description |-> "kikan nai ni uriagedaka ga genshou"])

getRevenueGrowthJudgment(growthRate) ==
    IF Ge(growthRate, Num(50))
    THEN Judged([level |-> "strong",
                 borderColor |-> "border-green-500",
                 textColor |-> "text-green-700",
                 darkTextColor |-> "dark:text-green-400",
                 title |-> "kouseichou",
                 description |-> "4 nenkan de kencho na uriagedaka kakudai"])
    ELSE IF Ge(growthRate, Num(20))
    THEN Judged([level |-> "moderate",
                 borderColor |-> "border-blue-500",
                 textColor |-> "text-blue-700",
                 darkTextColor |-> "dark:text-blue-400",
                 title |-> "kenjitsu na seichou",
                 description |-> "kenzen na uriagedaka seichou kidou"])
    ELSE IF Ge(growthRate, Num(0))
    THEN Judged([level |-> "stable",
                 borderColor |-> "border-yellow-500",
                 textColor |-> "text-yellow-700",
                 darkTextColor |-> "dark:text-yellow-400",
                 title |-> "antei",
                 description |-> "uriagedaka wo iji mata wa bizou"])
    ELSE Judged([level |-> "declining",
                 borderColor |-> "border-red-500",
                 textColor |-> "text-red-700",
                 darkTextColor |-> "dark:text-red-400",
                 title |-> "genshou keikou",
                 description |-> "kikan nai ni uriagedaka ga genshou"])

getROEJudgment(roe) ==
    IF Ge(roe, Num(15))
    THEN Judged([level |-> "excellent",
                 borderColor |-> "border-green-500",
                 textColor |-> "text-green-700",
                 darkTextColor |-> "dark:text-green-400",
                 title |-> "yuuryou",
                 description |-> "kabunushi shihon wo hijou ni kouritsuteki ni katsuyou"])
    ELSE IF Ge(roe, Num(10))
    THEN Judged([level |-> "good",
                 borderColor |-> "border-blue-500",
                 textColor |-> "text-blue-700",
                 darkTextColor |-> "dark:text-blue-400",
                 title |-> "ryoukou",
                 description |-> "kabunushi shihon wo kouritsuteki ni katsuyou"])
    ELSE IF Ge(roe, Num(5))
    THEN Judged([level |-> "fair",
                 borderColor |-> "border-yellow-500",
                 textColor |-> "text-yellow-700",
                 darkTextColor |-> "dark:text-yellow-400",
                 title |-> "futsuu",
                 description |-> "kaizen no yochi ari"])
    ELSE Judged([level |-> "poor",
                 borderColor |-> "border-red-500",
                 textColor |-> "text-red-700",
                 darkTextColor |-> "dark:text-red-400",
                 title |-> "youkaizen",
                 description |-> "shihon kouritsu ga hikui, mata wa akaji"])

\* getROAJudgment with the thresholds of getROEJudgment
getROAJudgment_roeThresholds(roa) ==
    IF Ge(roa, Num(15))
    THEN Judged([level |-> "excellent",
                 borderColor |-> "border-green-500",
                 textColor |-> "text-green-700",
                 darkTextColor |-> "dark:text-green-400",
                 title |-> "yuuryou",
                 description |-> "soushisan wo hijou ni kouritsuteki ni katsuyou"])
    ELSE IF Ge(roa, Num(10))
    THEN Judged([level |-> "good",
                 borderColor |-> "border-blue-500",
                 textColor |-> "text-blue-700",
                 darkTextColor |-> "dark:text-blue-400",
                 title |-> "ryoukou",
                 description |-> "soushisan wo kouritsuteki ni katsuyou"])
    ELSE IF Ge(roa, Num(5))
    THEN Judged([level |-> "fair",
                 borderColor |-> "border-yellow-500",
                 textColor |-> "text-yellow-700",
                 darkTextColor |-> "dark:text-yellow-400",
                 title |-> "futsuu",
                 description |-> "kaizen no yochi ari"])
    ELSE Judged([level |-> "poor",
                 borderColor |-> "border-red-500",
                 textColor |-> "text-red-700",
                 darkTextColor |-> "dark:text-red-400",
                 title |-> "youkaizen",
                 description |-> "shisan kouritsu ga hikui, mata wa akaji"])

\* getROAJudgment with the results of the good and the fair band exchanged
getROAJudgment_swappedBands(roa) ==
    IF Ge(roa, Num(10))
    THEN Judged([level |-> "excellent",
                 borderColor |-> "border-green-500",
                 textColor |-> "text-green-700",
                 darkTextColor |-> "dark:text-green-400",
                 title |-> "yuuryou",
                 description |-> "soushisan wo hijou ni kouritsuteki ni katsuyou"])
    ELSE IF Ge(roa, Num(5))
    THEN Judged([level |-> "fair",
                 borderColor |-> "border-yellow-500",
                 textColor |-> "text-yellow-700",
                 darkTextColor |-> "dark:text-yellow-400",
                 title |-> "futsuu",
                 description |-> "kaizen no yochi ari"])
    ELSE IF Ge(roa, Num(2))
    THEN Judged([level |-> "good",
                 borderColor |-> "border-blue-500",
                 textColor |-> "text-blue-700",
                 darkTextColor |-> "dark:text-blue-400",
                 title |-> "ryoukou",
                 description |-> "soushisan wo kouritsuteki ni katsuyou"])
    ELSE Judged([level |-> "poor",
                 borderColor |-> "border-red-500",
                 textColor |-> "text-red-700",
                 darkTextColor |-> "dark:text-red-400",
                 title |-> "youkaizen",
                 description |-> "shisan kouritsu ga hikui, mata wa akaji"])

getROAJudgment(roa) ==
    IF Ge(roa, Num(10))
    THEN Judged([level |-> "excellent",
                 borderColor |-> "border-green-500",
                 textColor |-> "text-green-700",
                 darkTextColor |-> "dark:text-green-400",
                 title |-> "yuuryou",
                 description |-> "soushisan wo hijou ni kouritsuteki ni katsuyou"])
    ELSE IF Ge(roa, Num(5))
    THEN Judged([level |-> "good",
                 borderColor |-> "border-blue-500",
                 textColor |-> "text-blue-700",
                 darkTextColor |-> "dark:text-blue-400",
                 title |-> "ryoukou",
                 description |-> "soushisan wo kouritsuteki ni katsuyou"])
    ELSE IF Ge(roa, Num(2))
    THEN Judged([level |-> "fair",
                 borderColor |-> "border-yellow-500",
                 textColor |-> "text-yellow-700",
                 darkTextColor |-> "dark:text-yellow-400",
                 title |-> "futsuu",
                 description |-> "kaizen no yochi ari"])
    ELSE Judged([level |-> "poor",
                 borderColor |-> "border-red-500",
                 textColor |-> "text-red-700",
                 darkTextColor |-> "dark:text-red-400",
                 title |-> "youkaizen",
                 description |-> "shisan kouritsu ga hikui, mata wa akaji"])

getOperatingMarginJudgment(margin) ==
    IF Ge(margin, Num(20))
    THEN Judged([level |-> "excellent",
                 borderColor |-> "border-green-500",
                 textColor |-> "text-green-700",
                 darkTextColor |-> "dark:text-green-400",
                 title |-> "yuuryou",
                 description |-> "hijou ni takai shuuekisei"])
    ELSE IF Ge(margin, Num(10))
    THEN Judged([level |-> "good",
                 borderColor |-> "border-blue-500",
                 textColor |-> "text-blue-700",
                 darkTextColor |-> "dark:text-blue-400",
                 title |-> "ryoukou",
                 description |-> "kenzen na shuuekisei"])
    ELSE IF Ge(margin, Num(5))
    THEN Judged([level |-> "fair",
                 borderColor |-> "border-yellow-500",
                 textColor |-> "text-yellow-700",
                 darkTextColor |-> "dark:text-yellow-400",
                 title |-> "futsuu",
                 description |-> "kaizen no yochi ari"])
    ELSE Judged([level |-> "poor",
                 borderColor |-> "border-red-500",
                 textColor |-> "text-red-700",
                 darkTextColor |-> "dark:text-red-400",
                 title |-> "youkaizen",
                 description |-> "shuuekisei ga hikui, mata wa akaji"])

\* getPERJudgment comparing with <= instead of <
getPERJudgment_inclusive(per) ==
    IF Le(per, Num(10))
    THEN Judged([level |-> "undervalued",
                 borderColor |-> "border-green-500",
                 textColor |-> "text-green-700",
                 darkTextColor |-> "dark:text-green-400",
                 title |-> "wariyasu",
                 description |-> "rieki ni taishite kabuka ga hikui"])
    ELSE IF Le(per, Num(20))
    THEN Judged([level |-> "fair",
                 borderColor |-> "border-blue-500",
                 textColor |-> "text-blue-700",
                 darkTextColor |-> "dark:text-blue-400",
                 title |-> "tekisei",
                 description |-> "hyoujunteki na kabuka suijun"])
    ELSE IF Le(per, Num(30))
    THEN Judged([level |-> "overvalued",
                 borderColor |-> "border-yellow-500",
                 textColor |-> "text-yellow-700",
                 darkTextColor |-> "dark:text-yellow-400",
                 title |-> "yaya waridaka",
                 description |-> "seichou kitai ga orikomarete iru"])
    ELSE Judged([level |-> "very-overvalued",
                 borderColor |-> "border-red-500",
                 textColor |-> "text-red-700",
                 darkTextColor |-> "dark:text-red-400",
                 title |-> "waridaka",
                 description |-> "takai seichou kitai, mata wa baburu-teki"])

getPERJudgment(per) ==
    IF Lt(per, Num(10))
    THEN Judged([level |-> "undervalued",
                 borderColor |-> "border-green-500",
                 textColor |-> "text-green-700",
                 darkTextColor |-> "dark:text-green-400",
                 title |-> "wariyasu",
                 description |-> "rieki ni taishite kabuka ga hikui"])
    ELSE IF Lt(per, Num(20))
    THEN Judged([level |-> "fair",
                 borderColor |-> "border-blue-500",
                 textColor |-> "text-blue-700",
                 darkTextColor |-> "dark:text-blue-400",
                 title |-> "tekisei",
                 description |-> "hyoujunteki na kabuka suijun"])
    ELSE IF Lt(per, Num(30))
    THEN Judged([level |-> "overvalued",
                 borderColor |-> "border-yellow-500",
                 textColor |-> "text-yellow-700",
                 darkTextColor |-> "dark:text-yellow-400",
                 title |-> "yaya waridaka",
                 description |-> "seichou kitai ga orikomarete iru"])
    ELSE Judged([level |-> "very-overvalued",
                 borderColor |-> "border-red-500",
                 textColor |-> "text-red-700",
                 darkTextColor |-> "dark:text-red-400",
                 title |-> "waridaka",
                 description |-> "takai seichou kitai, mata wa baburu-teki"])

\* getPBRJudgment tagging its upper bands with the levels of PSRJudgment
getPBRJudgment_psrLevels(pbr) ==
    IF Lt(pbr, Num(1))
    THEN Judged([level |-> "undervalued",
                 borderColor |-> "border-green-500",
                 textColor |-> "text-green-700",
                 darkTextColor |-> "dark:text-green-400",
                 title |-> "wariyasu",
                 description |-> "kaisan kachi wo shitamawaru kabuka"])
    ELSE IF Lt(pbr, Num(2))
    THEN Judged([level |-> "fair",
                 borderColor |-> "border-blue-500",
                 textColor |-> "text-blue-700",
                 darkTextColor |-> "dark:text-blue-400",
                 title |-> "tekisei",
                 description |-> "hyoujunteki na kabuka suijun"])
    ELSE IF Lt(pbr, Num(3))
    THEN Judged([level |-> "high",
                 borderColor |-> "border-yellow-500",
                 textColor |-> "text-yellow-700",
                 darkTextColor |-> "dark:text-yellow-400",
                 title |-> "yaya waridaka",
                 description |-> "seichou kitai ga orikomarete iru"])
    ELSE Judged([level |-> "very-high",
                 borderColor |-> "border-red-500",
                 textColor |-> "text-red-700",
                 darkTextColor |-> "dark:text-red-400",
                 title |-> "waridaka",
                 description |-> "takai seichou kitai, mata wa baburu-teki"])

getPBRJudgment(pbr) ==
    IF Lt(pbr, Num(1))
    THEN Judged([level |-> "undervalued",
                 borderColor |-> "border-green-500",
                 textColor |-> "text-green-700",
                 darkTextColor |-> "dark:text-green-400",
                 title |-> "wariyasu",
                 description |-> "kaisan kachi wo shitamawaru kabuka"])
    ELSE IF Lt(pbr, Num(2))
    THEN Judged([level |-> "fair",
                 borderColor |-> "border-blue-500",
                 textColor |-> "text-blue-700",
                 darkTextColor |-> "dark:text-blue-400",
                 title |-> "tekisei",
                 description |-> "hyoujunteki na kabuka suijun"])
    ELSE IF Lt(pbr, Num(3))
    THEN Judged([level |-> "overvalued",
                 borderColor |-> "border-yellow-500",
                 textColor |-> "text-yellow-700",
                 darkTextColor |-> "dark:text-yellow-400",
                 title |-> "yaya waridaka",
                 description |-> "seichou kitai ga orikomarete iru"])
    ELSE Judged([level |-> "very-overvalued",
                 borderColor |-> "border-red-500",
                 textColor |-> "text-red-700",
                 darkTextColor |-> "dark:text-red-400",
                 title |-> "waridaka",
                 description |-> "takai seichou kitai, mata wa baburu-teki"])

\* getDividendYieldJudgment with the level tags in the opposite order
getDividendYieldJudgment_reversed(yieldPercent) ==
    IF Ge(yieldPercent, Num(4))
    THEN Judged([level |-> "very-overvalued",
                 borderColor |-> "border-green-500",
                 textColor |-> "text-green-700",
                 darkTextColor |-> "dark:text-green-400",
                 title |-> "kouhaitou",
                 description |-> "inkamu gein juushi no toushika muke"])
    ELSE IF Ge(yieldPercent, Num(2))
    THEN Judged([level |-> "overvalued",
                 borderColor |-> "border-blue-500",
                 textColor |-> "text-blue-700",
                 darkTextColor |-> "dark:text-blue-400",
                 title |-> "hyoujunteki",
                 description |-> "heikinteki na haitou suijun"])
    ELSE IF Ge(yieldPercent, Num(1))
    THEN Judged([level |-> "fair",
                 borderColor |-> "border-yellow-500",
                 textColor |-> "text-yellow-700",
                 darkTextColor |-> "dark:text-yellow-400",
                 title |-> "teihaitou",
                 description |-> "seichou e no saitoushi juushi"])
    ELSE Judged([level |-> "undervalued",
                 borderColor |-> "border-red-500",
                 textColor |-> "text-red-700",
                 darkTextColor |-> "dark:text-red-400",
                 title |-> "muhaitouteki",
                 description |-> "haitou wo hobo dashite inai"])

getDividendYieldJudgment(yieldPercent) ==
    IF Ge(yieldPercent, Num(4))
    THEN Judged([level |-> "undervalued",
                 borderColor |-> "border-green-500",
                 textColor |-> "text-green-700",
                 darkTextColor |-> "dark:text-green-400",
                 title |-> "kouhaitou",
                 description |-> "inkamu gein juushi no toushika muke"])
    ELSE IF Ge(yieldPercent, Num(2))
    THEN Judged([level |-> "fair",
                 borderColor |-> "border-blue-500",
                 textColor |-> "text-blue-700",
                 darkTextColor |-> "dark:text-blue-400",
                 title |-> "hyoujunteki",
                 description |-> "heikinteki na haitou suijun"])
    ELSE IF Ge(yieldPercent, Num(1))
    THEN Judged([level |-> "overvalued",
                 borderColor |-> "border-yellow-500",
                 textColor |-> "text-yellow-700",
                 darkTextColor |-> "dark:text-yellow-400",
                 title |-> "teihaitou",
                 description |-> "seichou e no saitoushi juushi"])
    ELSE Judged([level |-> "very-overvalued",
                 borderColor |-> "border-red-500",
                 textColor |-> "text-red-700",
                 darkTextColor |-> "dark:text-red-400",
                 title |-> "muhaitouteki",
                 description |-> "haitou wo hobo dashite inai"])

\* ------------------------------------------------------------------------
\* State: one caller of the engine.  args holds the arguments the caller
\* has at hand (two operands, or one ratio), fn the function called last
\* and outcome what that call produced.  In the calculators fn, args and
\* outcome describe the call made by the step just taken ("none" when that
\* step called no function of the engine).
\* ------------------------------------------------------------------------

VARIABLES fn, args, outcome

engineVars == <<fn, args, outcome>>

\* state of GrowthCalculator, ProfitabilityCalculator, SafetyCalculator and
\* ValuationCalculator; the context value data; the effects still to run;
\* what the components render for each ratio
VARIABLES growth, profitability, safety, valuation, data, pending, view

uiVars == <<growth, profitability, safety, valuation, data, pending, view>>

\* state of CompanySearch
VARIABLES securitiesCode, loading, error, companyName

searchVars == <<securitiesCode, loading, error, companyName>>

\* ------------------------------------------------------------------------
\* Strings are sequences of characters; a character is a one-character
\* TLA+ string, or the romaji of one Japanese character.
\* ------------------------------------------------------------------------

Digits == <<"0", "1", "2", "3", "4", "5", "6", "7", "8", "9">>

\* the decimal string literal of the natural number k, e.g. '100000'
RECURSIVE Str(_)
Str(k) == IF k < 10 THEN <<Digits[k + 1]>> ELSE Str(k \div 10) \o <<Digits[(k % 10) + 1]>>

\* ------------------------------------------------------------------------
\* Mock data endpoint GET /api/edinet/[code]
\* ------------------------------------------------------------------------

\* the request being handled ([code |-> ...] or NoMessage) and its response
VARIABLES request, response

apiVars == <<request, response>>

NoMessage == [none |-> TRUE]

\* characters a requested code is made of, and the longest code requested
CodeChars == {"7", "0", "a"}

MaxCodeLen == 4

\* readings of the server clock
MaxClock == 2

RECURSIVE StringsUpTo(_, _)
StringsUpTo(chars, len) ==
    IF len = 0 THEN {<<>>}
    ELSE LET shorter == StringsUpTo(chars, len - 1)
         IN  shorter \cup {t \o <<c>> : t \in shorter, c \in chars}

Codes == StringsUpTo(CodeChars, MaxCodeLen)

\* GET with the revenue figure taken from the requested code
GET_codeAsRevenue(code, now) ==
    [status |-> 200,
     body |-> [companyName |-> <<"ki", "gyou", "ko", "-", "do">> \o code,
               submitDate |-> now,
               financialData |->
                   [revenue |-> code,
                    marketCap |-> Str(500000),
                    capex |-> Str(5000),
                    depreciation |-> Str(3000),
                    revenueCurrentYear |-> Str(100000),
                    revenueFourYearsAgo |-> Str(80000),
                    netIncome |-> Str(10000),
                    equity |-> Str(200000),
                    totalAssets |-> Str(300000),
                    operatingIncome |-> Str(15000),
                    currentAssets |-> Str(150000),
                    currentLiabilities |-> Str(50000),
                    stockPrice |-> Str(2500),
                    annualDividend |-> Str(100)]]]

\* the handler: nothing in its try block throws, so the response is always
\* the JSON body with the placeholder figures (status 200)
GET(code, now) ==
    [status |-> 200,
     body |-> [companyName |-> <<"ki", "gyou", "ko", "-", "do">> \o code,
               submitDate |-> now,
               financialData |->
                   [revenue |-> Str(100000),
                    marketCap |-> Str(500000),
                    capex |-> Str(5000),
                    depreciation |-> Str(3000),
                    revenueCurrentYear |-> Str(100000),
                    revenueFourYearsAgo |-> Str(80000),
                    netIncome |-> Str(10000),
                    equity |-> Str(200000),
                    totalAssets |-> Str(300000),
                    operatingIncome |-> Str(15000),
                    currentAssets |-> Str(150000),
                    currentLiabilities |-> Str(50000),
                    stockPrice |-> Str(2500),
                    annualDividend |-> Str(100)]]]

ApiIdle ==
    /\ request = NoMessage
    /\ response = NoMessage

\* a client requests /api/edinet/<code>
SendRequest ==
    \E code \in Codes :
        /\ request' = [code |-> code]
        /\ response' = NoMessage
        /\ UNCHANGED <<engineVars, uiVars, searchVars>>

\* the route handler answers the request
HandleGET ==
    /\ request # NoMessage
    /\ response = NoMessage
    /\ \E now \in 1..MaxClock : response' = GET(request.code, now)
    /\ UNCHANGED <<request, engineVars, uiVars, searchVars>>

\* ------------------------------------------------------------------------
\* The four calculator components and the shared fetched data
\*
\* Each component keeps its input texts and its ratios in React state.  An
\* effect runs after the commit in which one of its dependencies changed;
\* pending lists the effects still to run, in the order React runs them.
\* The components are independent of each other, so the order among them
\* (here the order of their section numbers) does not matter.
\* ------------------------------------------------------------------------

\* JavaScript null
Null == [null |-> TRUE]

\* a conditional JSX block that is not rendered
Hidden == [hidden |-> TRUE]

\* at most this many inputs differ at a time from their initial or fetched text
MaxEdited == 1

\* texts that arrive as e.target.value: '', '0', '-5', 'a', '1,000', '1.5'
TypedTexts ==
    {<<>>, <<"0">>, <<"-", "5">>, <<"a">>, <<"1", ",", "0", "0", "0">>, <<"1", ".", "5">>}

\* value.replace(/,/g, '')
unformatNumber(value) == SelectSeq(value, LAMBDA c : c # ",")

IsDigit(c) == \E k \in 1..10 : Digits[k] = c

DigitValue(c) == (CHOOSE k \in 1..10 : Digits[k] = c) - 1

\* the natural number written by a string of digits ('' gives 0)
RECURSIVE DigitsValue(_)
DigitsValue(s) ==
    IF s = <<>> THEN 0
    ELSE DigitsValue(SubSeq(s, 1, Len(s) - 1)) * 10 + DigitValue(s[Len(s)])

RECURSIVE Pow10(_)
Pow10(k) == IF k = 0 THEN 1 ELSE 10 * Pow10(k - 1)

\* Number(s) for a string s: '' converts to 0; an optional sign followed by
\* digits with at most one decimal point and at least one digit converts to
\* that decimal; every other text over digits, signs, points and letters
\* converts to NaN.  (White space, exponents, radix prefixes and 'Infinity'
\* do not occur in the texts considered.)
Number(s) ==
    IF s = <<>> THEN Num(0)
    ELSE LET unsigned == IF Head(s) \in {"-", "+"} THEN Tail(s) ELSE s
             points == {i \in DOMAIN unsigned : unsigned[i] = "."}
             point == IF points = {} THEN Len(unsigned) + 1
                      ELSE CHOOSE i \in points : \A j \in points : i <= j
             whole == SubSeq(unsigned, 1, point - 1)
             fraction == SubSeq(unsigned, point + 1, Len(unsigned))
             wellFormed ==
                 /\ \A i \in DOMAIN whole : IsDigit(whole[i])
                 /\ \A i \in DOMAIN fraction : IsDigit(fraction[i])
                 /\ Len(whole) + Len(fraction) > 0
         IN  IF ~wellFormed THEN NaN
             ELSE LET magnitude == Rat(DigitsValue(whole \o fraction), Pow10(Len(fraction)))
                  IN  IF Head(s) = "-" THEN Sub(Num(0), magnitude) ELSE magnitude

\* names of the effects, out of a component's list, that have a dependency
\* whose value differs between two renders
Triggered(effects, old, new) ==
    LET changed == SelectSeq(effects, LAMBDA e : \E f \in e.deps : old[f] # new[f])
    IN  [i \in DOMAIN changed |-> changed[i].name]

\* the judgment function named f applied to the ratio r
Judge(f, r) ==
    CASE f = "getPSRJudgment" -> getPSRJudgment(r)
      [] f = "getCurrentRatioJudgment" -> getCurrentRatioJudgment(r)
      [] f = "getEquityRatioJudgment" -> getEquityRatioJudgment(r)
      [] f = "getCapExRatioJudgment" -> getCapExRatioJudgment(r)
      [] f = "getRevenueGrowthJudgment" -> getRevenueGrowthJudgment(r)
      [] f = "getROEJudgment" -> getROEJudgment(r)
      [] f = "getROAJudgment" -> getROAJudgment(r)
      [] f = "getOperatingMarginJudgment" -> getOperatingMarginJudgment(r)
      [] f = "getPERJudgment" -> getPERJudgment(r)
      [] f = "getPBRJudgment" -> getPBRJudgment(r)
      [] f = "getDividendYieldJudgment" -> getDividendYieldJudgment(r)

\* if (financialData.field): the optional field is there and is not ''
Present(financialData, field) ==
    /\ field \in DOMAIN financialData
    /\ financialData[field] # <<>>

\* ---- GrowthCalculator: state ----

\* useState initial values: every input '' and every ratio null
GrowthCalculator_InitialState ==
    [revenue |-> <<>>,
     marketCap |-> <<>>,
     capex |-> <<>>,
     depreciation |-> <<>>,
     currentRevenue |-> <<>>,
     pastRevenue |-> <<>>,
     psr |-> Null,
     capexRatio |-> Null,
     revenueGrowth |-> Null]

GrowthCalculator_Fields == {"revenue", "marketCap", "capex", "depreciation", "currentRevenue", "pastRevenue"}

\* the calculation effects in declaration order, each with its dependency array
GrowthCalculator_Effects ==
    <<[name |-> "GrowthCalculator_PSREffect", deps |-> {"revenue", "marketCap"}],
      [name |-> "GrowthCalculator_CapExRatioEffect", deps |-> {"capex", "depreciation"}],
      [name |-> "GrowthCalculator_RevenueGrowthEffect", deps |-> {"currentRevenue", "pastRevenue"}]>>

\* body of the auto-fill effect: each fetched figure that is a non-empty
\* string replaces the input it belongs to
GrowthCalculator_AutoFilled(state, financialData) ==
    IF financialData = Null THEN state
    ELSE [state EXCEPT
             !.revenue = IF Present(financialData, "revenue") THEN financialData.revenue ELSE @,
             !.marketCap = IF Present(financialData, "marketCap") THEN financialData.marketCap ELSE @,
             !.capex = IF Present(financialData, "capex") THEN financialData.capex ELSE @,
             !.depreciation = IF Present(financialData, "depreciation") THEN financialData.depreciation ELSE @,
             !.currentRevenue = IF Present(financialData, "revenueCurrentYear") THEN financialData.revenueCurrentYear ELSE @,
             !.pastRevenue = IF Present(financialData, "revenueFourYearsAgo") THEN financialData.revenueFourYearsAgo ELSE @]

\* ---- ProfitabilityCalculator: state ----

\* useState initial values: every input '' and every ratio null
ProfitabilityCalculator_InitialState ==
    [netIncome |-> <<>>,
     equity |-> <<>>,
     totalAssets |-> <<>>,
     operatingIncome |-> <<>>,
     revenue |-> <<>>,
     roe |-> Null,
     roa |-> Null,
     operatingMargin |-> Null]

ProfitabilityCalculator_Fields == {"netIncome", "equity", "totalAssets", "operatingIncome", "revenue"}

\* the calculation effects in declaration order, each with its dependency array
ProfitabilityCalculator_Effects ==
    <<[name |-> "ProfitabilityCalculator_ROEEffect", deps |-> {"netIncome", "equity"}],
      [name |-> "ProfitabilityCalculator_ROAEffect", deps |-> {"netIncome", "totalAssets"}],
      [name |-> "ProfitabilityCalculator_OperatingMarginEffect", deps |-> {"operatingIncome", "revenue"}]>>

\* the auto-fill effect testing each field against undefined instead of
\* testing its truth
ProfitabilityCalculator_AutoFilled_emptyToo(state, financialData) ==
    IF financialData = Null THEN state
    ELSE [state EXCEPT
             !.netIncome = IF "netIncome" \in DOMAIN financialData THEN financialData.netIncome ELSE @,
             !.equity = IF "equity" \in DOMAIN financialData THEN financialData.equity ELSE @,
             !.totalAssets = IF "totalAssets" \in DOMAIN financialData THEN financialData.totalAssets ELSE @,
             !.operatingIncome = IF "operatingIncome" \in DOMAIN financialData THEN financialData.operatingIncome ELSE @,
             !.revenue = IF "revenue" \in DOMAIN financialData THEN financialData.revenue ELSE @]

\* body of the auto-fill effect: each fetched figure that is a non-empty
\* string replaces the input it belongs to
ProfitabilityCalculator_AutoFilled(state, financialData) ==
    IF financialData = Null THEN state
    ELSE [state EXCEPT
             !.netIncome = IF Present(financialData, "netIncome") THEN financialData.netIncome ELSE @,
             !.equity = IF Present(financialData, "equity") THEN financialData.equity ELSE @,
             !.totalAssets = IF Present(financialData, "totalAssets") THEN financialData.totalAssets ELSE @,
             !.operatingIncome = IF Present(financialData, "operatingIncome") THEN financialData.operatingIncome ELSE @,
             !.revenue = IF Present(financialData, "revenue") THEN financialData.revenue ELSE @]

\* ---- SafetyCalculator: state ----

\* useState initial values: every input '' and every ratio null
SafetyCalculator_InitialState ==
    [currentAssets |-> <<>>,
     currentLiabilities |-> <<>>,
     equity |-> <<>>,
     totalAssets |-> <<>>,
     currentRatio |-> Null,
     equityRatio |-> Null]

SafetyCalculator_Fields == {"currentAssets", "currentLiabilities", "equity", "totalAssets"}

\* the calculation effects in declaration order, each with its dependency array
SafetyCalculator_Effects ==
    <<[name |-> "SafetyCalculator_CurrentRatioEffect", deps |-> {"currentAssets", "currentLiabilities"}],
      [name |-> "SafetyCalculator_EquityRatioEffect", deps |-> {"equity", "totalAssets"}]>>

\* body of the auto-fill effect: each fetched figure that is a non-empty
\* string replaces the input it belongs to
SafetyCalculator_AutoFilled(state, financialData) ==
    IF financialData = Null THEN state
    ELSE [state EXCEPT
             !.currentAssets = IF Present(financialData, "currentAssets") THEN financialData.currentAssets ELSE @,
             !.currentLiabilities = IF Present(financialData, "currentLiabilities") THEN financialData.currentLiabilities ELSE @,
             !.equity = IF Present(financialData, "equity") THEN financialData.equity ELSE @,
             !.totalAssets = IF Present(financialData, "totalAssets") THEN financialData.totalAssets ELSE @]

\* ---- ValuationCalculator: state ----

\* useState initial values: every input '' and every ratio null
ValuationCalculator_InitialState ==
    [marketCapPER |-> <<>>,
     netIncome |-> <<>>,
     marketCapPBR |-> <<>>,
     equity |-> <<>>,
     annualDividend |-> <<>>,
     stockPrice |-> <<>>,
     per |-> Null,
     pbr |-> Null,
     dividendYield |-> Null]

ValuationCalculator_Fields == {"marketCapPER", "netIncome", "marketCapPBR", "equity", "annualDividend", "stockPrice"}

\* ValuationCalculator_Effects with equity missing from the dependencies of the PBR effect
ValuationCalculator_Effects_pbrWithoutEquity ==
    <<[name |-> "ValuationCalculator_PEREffect", deps |-> {"marketCapPER", "netIncome"}],
      [name |-> "ValuationCalculator_PBREffect", deps |-> {"marketCapPBR"}],
      [name |-> "ValuationCalculator_DividendYieldEffect", deps |-> {"annualDividend", "stockPrice"}]>>

\* the calculation effects in declaration order, each with its dependency array
ValuationCalculator_Effects ==
    <<[name |-> "ValuationCalculator_PEREffect", deps |-> {"marketCapPER", "netIncome"}],
      [name |-> "ValuationCalculator_PBREffect", deps |-> {"marketCapPBR", "equity"}],
      [name |-> "ValuationCalculator_DividendYieldEffect", deps |-> {"annualDividend", "stockPrice"}]>>

\* body of the auto-fill effect: each fetched figure that is a non-empty
\* string replaces the input it belongs to
ValuationCalculator_AutoFilled(state, financialData) ==
    IF financialData = Null THEN state
    ELSE [state EXCEPT
             !.marketCapPER = IF Present(financialData, "marketCap") THEN financialData.marketCap ELSE @,
             !.marketCapPBR = IF Present(financialData, "marketCap") THEN financialData.marketCap ELSE @,
             !.netIncome = IF Present(financialData, "netIncome") THEN financialData.netIncome ELSE @,
             !.equity = IF Present(financialData, "equity") THEN financialData.equity ELSE @,
             !.stockPrice = IF Present(financialData, "stockPrice") THEN financialData.stockPrice ELSE @,
             !.annualDividend = IF Present(financialData, "annualDividend") THEN financialData.annualDividend ELSE @]


\* the judgment block of a ratio, rendered without the test for null: in the
\* comparisons of a judgment function null counts as 0
RenderedJudgment_unguarded(judgmentFunction, ratio) ==
    Judge(judgmentFunction, IF ratio = Null THEN Num(0) ELSE ratio).judgment

\* {ratio !== null && ... getXJudgment(ratio) ...}
RenderedJudgment(judgmentFunction, ratio) ==
    IF ratio # Null THEN Judge(judgmentFunction, ratio).judgment ELSE Hidden

\* what GrowthCalculator shows for each of its ratios
GrowthCalculator_Render(state) ==
    [psr |-> RenderedJudgment("getPSRJudgment", state.psr),
     capexRatio |-> RenderedJudgment("getCapExRatioJudgment", state.capexRatio),
     revenueGrowth |-> RenderedJudgment("getRevenueGrowthJudgment", state.revenueGrowth)]

\* what ProfitabilityCalculator shows for each of its ratios
ProfitabilityCalculator_Render(state) ==
    [roe |-> RenderedJudgment("getROEJudgment", state.roe),
     roa |-> RenderedJudgment("getROAJudgment", state.roa),
     operatingMargin |-> RenderedJudgment("getOperatingMarginJudgment", state.operatingMargin)]

\* what SafetyCalculator shows for each of its ratios
SafetyCalculator_Render(state) ==
    [currentRatio |-> RenderedJudgment("getCurrentRatioJudgment", state.currentRatio),
     equityRatio |-> RenderedJudgment("getEquityRatioJudgment", state.equityRatio)]

\* what ValuationCalculator shows for each of its ratios
ValuationCalculator_Render(state) ==
    [per |-> RenderedJudgment("getPERJudgment", state.per),
     pbr |-> RenderedJudgment("getPBRJudgment", state.pbr),
     dividendYield |-> RenderedJudgment("getDividendYieldJudgment", state.dividendYield)]

Render(growthState, profitabilityState, safetyState, valuationState) ==
    [growth |-> GrowthCalculator_Render(growthState),
     profitability |-> ProfitabilityCalculator_Render(profitabilityState),
     safety |-> SafetyCalculator_Render(safetyState),
     valuation |-> ValuationCalculator_Render(valuationState)]

\* the inputs whose text is neither the text the last fetch filled in nor,
\* before any fetch, the initial ''
EditedFields(growthState, profitabilityState, safetyState, valuationState, financialData) ==
    {<<"growth", f>> : f \in {g \in GrowthCalculator_Fields :
        growthState[g] # GrowthCalculator_AutoFilled(GrowthCalculator_InitialState, financialData)[g]}}
    \cup {<<"profitability", f>> : f \in {g \in ProfitabilityCalculator_Fields :
        profitabilityState[g] # ProfitabilityCalculator_AutoFilled(ProfitabilityCalculator_InitialState, financialData)[g]}}
    \cup {<<"safety", f>> : f \in {g \in SafetyCalculator_Fields :
        safetyState[g] # SafetyCalculator_AutoFilled(SafetyCalculator_InitialState, financialData)[g]}}
    \cup {<<"valuation", f>> : f \in {g \in ValuationCalculator_Fields :
        valuationState[g] # ValuationCalculator_AutoFilled(ValuationCalculator_InitialState, financialData)[g]}}

\* a step in which no function of the engine is called
NoCall ==
    /\ fn' = "none"
    /\ args' = <<>>
    /\ outcome' = [kind |-> "none"]

\* ---- GrowthCalculator: effects and handlers ----

GrowthCalculator_AutoFill ==
    /\ pending # <<>>
    /\ Head(pending) = "GrowthCalculator_AutoFill"
    /\ growth' = GrowthCalculator_AutoFilled(growth, data)
    /\ pending' = Tail(pending) \o Triggered(GrowthCalculator_Effects, growth, growth')
    /\ UNCHANGED <<profitability, safety, valuation, data, apiVars, searchVars>>
    /\ NoCall
    /\ view' = Render(growth', profitability', safety', valuation')

\* effect: convert both inputs, call the engine when the guard holds,
\* otherwise store null
GrowthCalculator_PSREffect ==
    /\ pending # <<>>
    /\ Head(pending) = "GrowthCalculator_PSREffect"
    /\ LET revenueNum == Number(growth.revenue)
           marketCapNum == Number(growth.marketCap)
       IN  IF Gt(revenueNum, Num(0)) /\ Gt(marketCapNum, Num(0))
           THEN /\ fn' = "calculatePSR"
                /\ args' = <<marketCapNum, revenueNum>>
                /\ outcome' = calculatePSR(marketCapNum, revenueNum)
                /\ growth' = [growth EXCEPT !.psr =
                               IF outcome'.kind = "return" THEN outcome'.value ELSE @]
           ELSE /\ growth' = [growth EXCEPT !.psr = Null]
                /\ NoCall
    /\ pending' = Tail(pending)
    /\ UNCHANGED <<profitability, safety, valuation, data, apiVars, searchVars>>
    /\ view' = Render(growth', profitability', safety', valuation')

\* effect: convert both inputs, call the engine when the guard holds,
\* otherwise store null
GrowthCalculator_CapExRatioEffect ==
    /\ pending # <<>>
    /\ Head(pending) = "GrowthCalculator_CapExRatioEffect"
    /\ LET capexNum == Number(growth.capex)
           depreciationNum == Number(growth.depreciation)
       IN  IF Gt(capexNum, Num(0)) /\ Gt(depreciationNum, Num(0))
           THEN /\ fn' = "calculateCapExRatio"
                /\ args' = <<capexNum, depreciationNum>>
                /\ outcome' = calculateCapExRatio(capexNum, depreciationNum)
                /\ growth' = [growth EXCEPT !.capexRatio =
                               IF outcome'.kind = "return" THEN outcome'.value ELSE @]
           ELSE /\ growth' = [growth EXCEPT !.capexRatio = Null]
                /\ NoCall
    /\ pending' = Tail(pending)
    /\ UNCHANGED <<profitability, safety, valuation, data, apiVars, searchVars>>
    /\ view' = Render(growth', profitability', safety', valuation')

\* effect: convert both inputs, call the engine when the guard holds,
\* otherwise store null
GrowthCalculator_RevenueGrowthEffect ==
    /\ pending # <<>>
    /\ Head(pending) = "GrowthCalculator_RevenueGrowthEffect"
    /\ LET currentNum == Number(growth.currentRevenue)
           pastNum == Number(growth.pastRevenue)
       IN  IF Gt(currentNum, Num(0)) /\ Gt(pastNum, Num(0))
           THEN /\ fn' = "calculateRevenueGrowth"
                /\ args' = <<currentNum, pastNum>>
                /\ outcome' = calculateRevenueGrowth(currentNum, pastNum)
                /\ growth' = [growth EXCEPT !.revenueGrowth =
                               IF outcome'.kind = "return" THEN outcome'.value ELSE @]
           ELSE /\ growth' = [growth EXCEPT !.revenueGrowth = Null]
                /\ NoCall
    /\ pending' = Tail(pending)
    /\ UNCHANGED <<profitability, safety, valuation, data, apiVars, searchVars>>
    /\ view' = Render(growth', profitability', safety', valuation')

\* an input of GrowthCalculator changes: InputField.handleChange passes the text
\* without its commas to the setter given as onChange
GrowthCalculator_handleChange ==
    /\ pending = <<>>
    /\ \E field \in GrowthCalculator_Fields, inputValue \in TypedTexts :
        LET rawValue == unformatNumber(inputValue) IN
        /\ growth' = [growth EXCEPT ![field] = rawValue]
        /\ pending' = Triggered(GrowthCalculator_Effects, growth, growth')
    /\ UNCHANGED <<profitability, safety, valuation, data, apiVars, searchVars>>
    /\ NoCall
    /\ Cardinality(EditedFields(growth', profitability', safety', valuation', data)) <= MaxEdited
    /\ view' = Render(growth', profitability', safety', valuation')

\* ---- ProfitabilityCalculator: effects and handlers ----

ProfitabilityCalculator_AutoFill ==
    /\ pending # <<>>
    /\ Head(pending) = "ProfitabilityCalculator_AutoFill"
    /\ profitability' = ProfitabilityCalculator_AutoFilled(profitability, data)
    /\ pending' = Tail(pending) \o Triggered(ProfitabilityCalculator_Effects, profitability, profitability')
    /\ UNCHANGED <<growth, safety, valuation, data, apiVars, searchVars>>
    /\ NoCall
    /\ view' = Render(growth', profitability', safety', valuation')

\* effect: convert both inputs, call the engine when the guard holds,
\* otherwise store null
ProfitabilityCalculator_ROEEffect ==
    /\ pending # <<>>
    /\ Head(pending) = "ProfitabilityCalculator_ROEEffect"
    /\ LET incomeNum == Number(profitability.netIncome)
           equityNum == Number(profitability.equity)
       IN  IF Gt(incomeNum, Num(0)) /\ Gt(equityNum, Num(0))
           THEN /\ fn' = "calculateROE"
                /\ args' = <<incomeNum, equityNum>>
                /\ outcome' = calculateROE(incomeNum, equityNum)
                /\ profitability' = [profitability EXCEPT !.roe =
                               IF outcome'.kind = "return" THEN outcome'.value ELSE @]
           ELSE /\ profitability' = [profitability EXCEPT !.roe = Null]
                /\ NoCall
    /\ pending' = Tail(pending)
    /\ UNCHANGED <<growth, safety, valuation, data, apiVars, searchVars>>
    /\ view' = Render(growth', profitability', safety', valuation')

\* effect: convert both inputs, call the engine when the guard holds,
\* otherwise store null
ProfitabilityCalculator_ROAEffect ==
    /\ pending # <<>>
    /\ Head(pending) = "ProfitabilityCalculator_ROAEffect"
    /\ LET incomeNum == Number(profitability.netIncome)
           assetsNum == Number(profitability.totalAssets)
       IN  IF Gt(incomeNum, Num(0)) /\ Gt(assetsNum, Num(0))
           THEN /\ fn' = "calculateROA"
                /\ args' = <<incomeNum, assetsNum>>
                /\ outcome' = calculateROA(incomeNum, assetsNum)
                /\ profitability' = [profitability EXCEPT !.roa =
                               IF outcome'.kind = "return" THEN outcome'.value ELSE @]
           ELSE /\ profitability' = [profitability EXCEPT !.roa = Null]
                /\ NoCall
    /\ pending' = Tail(pending)
    /\ UNCHANGED <<growth, safety, valuation, data, apiVars, searchVars>>
    /\ view' = Render(growth', profitability', safety', valuation')

\* effect: convert both inputs, call the engine when the guard holds,
\* otherwise store null
ProfitabilityCalculator_OperatingMarginEffect ==
    /\ pending # <<>>
    /\ Head(pending) = "ProfitabilityCalculator_OperatingMarginEffect"
    /\ LET opIncomeNum == Number(profitability.operatingIncome)
           revenueNum == Number(profitability.revenue)
       IN  IF Gt(opIncomeNum, Num(0)) /\ Gt(revenueNum, Num(0))
           THEN /\ fn' = "calculateOperatingMargin"
                /\ args' = <<opIncomeNum, revenueNum>>
                /\ outcome' = calculateOperatingMargin(opIncomeNum, revenueNum)
                /\ profitability' = [profitability EXCEPT !.operatingMargin =
                               IF outcome'.kind = "return" THEN outcome'.value ELSE @]
           ELSE /\ profitability' = [profitability EXCEPT !.operatingMargin = Null]
                /\ NoCall
    /\ pending' = Tail(pending)
    /\ UNCHANGED <<growth, safety, valuation, data, apiVars, searchVars>>
    /\ view' = Render(growth', profitability', safety', valuation')

\* an input of ProfitabilityCalculator changes: InputField.handleChange passes the text
\* without its commas to the setter given as onChange
ProfitabilityCalculator_handleChange ==
    /\ pending = <<>>
    /\ \E field \in ProfitabilityCalculator_Fields, inputValue \in TypedTexts :
        LET rawValue == unformatNumber(inputValue) IN
        /\ profitability' = [profitability EXCEPT ![field] = rawValue]
        /\ pending' = Triggered(ProfitabilityCalculator_Effects, profitability, profitability')
    /\ UNCHANGED <<growth, safety, valuation, data, apiVars, searchVars>>
    /\ NoCall
    /\ Cardinality(EditedFields(growth', profitability', safety', valuation', data)) <= MaxEdited
    /\ view' = Render(growth', profitability', safety', valuation')

\* ---- SafetyCalculator: effects and handlers ----

SafetyCalculator_AutoFill ==
    /\ pending # <<>>
    /\ Head(pending) = "SafetyCalculator_AutoFill"
    /\ safety' = SafetyCalculator_AutoFilled(safety, data)
    /\ pending' = Tail(pending) \o Triggered(SafetyCalculator_Effects, safety, safety')
    /\ UNCHANGED <<growth, profitability, valuation, data, apiVars, searchVars>>
    /\ NoCall
    /\ view' = Render(growth', profitability', safety', valuation')

\* effect: convert both inputs, call the engine when the guard holds,
\* otherwise store null
SafetyCalculator_CurrentRatioEffect ==
    /\ pending # <<>>
    /\ Head(pending) = "SafetyCalculator_CurrentRatioEffect"
    /\ LET assetsNum == Number(safety.currentAssets)
           liabilitiesNum == Number(safety.currentLiabilities)
       IN  IF Gt(assetsNum, Num(0)) /\ Gt(liabilitiesNum, Num(0))
           THEN /\ fn' = "calculateCurrentRatio"
                /\ args' = <<assetsNum, liabilitiesNum>>
                /\ outcome' = calculateCurrentRatio(assetsNum, liabilitiesNum)
                /\ safety' = [safety EXCEPT !.currentRatio =
                               IF outcome'.kind = "return" THEN outcome'.value ELSE @]
           ELSE /\ safety' = [safety EXCEPT !.currentRatio = Null]
                /\ NoCall
    /\ pending' = Tail(pending)
    /\ UNCHANGED <<growth, profitability, valuation, data, apiVars, searchVars>>
    /\ view' = Render(growth', profitability', safety', valuation')

\* the equity ratio effect guarding the numerator only
SafetyCalculator_EquityRatioEffect_numeratorOnly ==
    /\ pending # <<>>
    /\ Head(pending) = "SafetyCalculator_EquityRatioEffect"
    /\ LET equityNum == Number(safety.equity)
           assetsNum == Number(safety.totalAssets)
       IN  IF Gt(equityNum, Num(0))
           THEN /\ fn' = "calculateEquityRatio"
                /\ args' = <<equityNum, assetsNum>>
                /\ outcome' = calculateEquityRatio(equityNum, assetsNum)
                /\ safety' = [safety EXCEPT !.equityRatio =
                               IF outcome'.kind = "return" THEN outcome'.value ELSE @]
           ELSE /\ safety' = [safety EXCEPT !.equityRatio = Null]
                /\ NoCall
    /\ pending' = Tail(pending)
    /\ UNCHANGED <<growth, profitability, valuation, data, apiVars, searchVars>>
    /\ view' = Render(growth', profitability', safety', valuation')

\* effect: convert both inputs, call the engine when the guard holds,
\* otherwise store null
SafetyCalculator_EquityRatioEffect ==
    /\ pending # <<>>
    /\ Head(pending) = "SafetyCalculator_EquityRatioEffect"
    /\ LET equityNum == Number(safety.equity)
           assetsNum == Number(safety.totalAssets)
       IN  IF Gt(equityNum, Num(0)) /\ Gt(assetsNum, Num(0))
           THEN /\ fn' = "calculateEquityRatio"
                /\ args' = <<equityNum, assetsNum>>
                /\ outcome' = calculateEquityRatio(equityNum, assetsNum)
                /\ safety' = [safety EXCEPT !.equityRatio =
                               IF outcome'.kind = "return" THEN outcome'.value ELSE @]
           ELSE /\ safety' = [safety EXCEPT !.equityRatio = Null]
                /\ NoCall
    /\ pending' = Tail(pending)
    /\ UNCHANGED <<growth, profitability, valuation, data, apiVars, searchVars>>
    /\ view' = Render(growth', profitability', safety', valuation')

\* an input of SafetyCalculator changes: InputField.handleChange passes the text
\* without its commas to the setter given as onChange
SafetyCalculator_handleChange ==
    /\ pending = <<>>
    /\ \E field \in SafetyCalculator_Fields, inputValue \in TypedTexts :
        LET rawValue == unformatNumber(inputValue) IN
        /\ safety' = [safety EXCEPT ![field] = rawValue]
        /\ pending' = Triggered(SafetyCalculator_Effects, safety, safety')
    /\ UNCHANGED <<growth, profitability, valuation, data, apiVars, searchVars>>
    /\ NoCall
    /\ Cardinality(EditedFields(growth', profitability', safety', valuation', data)) <= MaxEdited
    /\ view' = Render(growth', profitability', safety', valuation')

\* ---- ValuationCalculator: effects and handlers ----

ValuationCalculator_AutoFill ==
    /\ pending # <<>>
    /\ Head(pending) = "ValuationCalculator_AutoFill"
    /\ valuation' = ValuationCalculator_AutoFilled(valuation, data)
    /\ pending' = Tail(pending) \o Triggered(ValuationCalculator_Effects, valuation, valuation')
    /\ UNCHANGED <<growth, profitability, safety, data, apiVars, searchVars>>
    /\ NoCall
    /\ view' = Render(growth', profitability', safety', valuation')

\* effect: convert both inputs, call the engine when the guard holds,
\* otherwise store null
ValuationCalculator_PEREffect ==
    /\ pending # <<>>
    /\ Head(pending) = "ValuationCalculator_PEREffect"
    /\ LET marketCapNum == Number(valuation.marketCapPER)
           incomeNum == Number(valuation.netIncome)
       IN  IF Gt(marketCapNum, Num(0)) /\ Gt(incomeNum, Num(0))
           THEN /\ fn' = "calculatePER"
                /\ args' = <<marketCapNum, incomeNum>>
                /\ outcome' = calculatePER(marketCapNum, incomeNum)
                /\ valuation' = [valuation EXCEPT !.per =
                               IF outcome'.kind = "return" THEN outcome'.value ELSE @]
           ELSE /\ valuation' = [valuation EXCEPT !.per = Null]
                /\ NoCall
    /\ pending' = Tail(pending)
    /\ UNCHANGED <<growth, profitability, safety, data, apiVars, searchVars>>
    /\ view' = Render(growth', profitability', safety', valuation')

\* effect: convert both inputs, call the engine when the guard holds,
\* otherwise store null
ValuationCalculator_PBREffect ==
    /\ pending # <<>>
    /\ Head(pending) = "ValuationCalculator_PBREffect"
    /\ LET marketCapNum == Number(valuation.marketCapPBR)
           equityNum == Number(valuation.equity)
       IN  IF Gt(marketCapNum, Num(0)) /\ Gt(equityNum, Num(0))
           THEN /\ fn' = "calculatePBR"
                /\ args' = <<marketCapNum, equityNum>>
                /\ outcome' = calculatePBR(marketCapNum, equityNum)
                /\ valuation' = [valuation EXCEPT !.pbr =
                               IF outcome'.kind = "return" THEN outcome'.value ELSE @]
           ELSE /\ valuation' = [valuation EXCEPT !.pbr = Null]
                /\ NoCall
    /\ pending' = Tail(pending)
    /\ UNCHANGED <<growth, profitability, safety, data, apiVars, searchVars>>
    /\ view' = Render(growth', profitability', safety', valuation')

\* the dividend yield effect with the guard of the other effects (dividend > 0)
ValuationCalculator_DividendYieldEffect_positiveDividend ==
    /\ pending # <<>>
    /\ Head(pending) = "ValuationCalculator_DividendYieldEffect"
    /\ LET dividendNum == Number(valuation.annualDividend)
           priceNum == Number(valuation.stockPrice)
       IN  IF Gt(dividendNum, Num(0)) /\ Gt(priceNum, Num(0))
           THEN /\ fn' = "calculateDividendYield"
                /\ args' = <<dividendNum, priceNum>>
                /\ outcome' = calculateDividendYield(dividendNum, priceNum)
                /\ valuation' = [valuation EXCEPT !.dividendYield =
                               IF outcome'.kind = "return" THEN outcome'.value ELSE @]
           ELSE /\ valuation' = [valuation EXCEPT !.dividendYield = Null]
                /\ NoCall
    /\ pending' = Tail(pending)
    /\ UNCHANGED <<growth, profitability, safety, data, apiVars, searchVars>>
    /\ view' = Render(growth', profitability', safety', valuation')

\* effect: convert both inputs, call the engine when the guard holds,
\* otherwise store null
ValuationCalculator_DividendYieldEffect ==
    /\ pending # <<>>
    /\ Head(pending) = "ValuationCalculator_DividendYieldEffect"
    /\ LET dividendNum == Number(valuation.annualDividend)
           priceNum == Number(valuation.stockPrice)
       IN  IF Ge(dividendNum, Num(0)) /\ Gt(priceNum, Num(0))
           THEN /\ fn' = "calculateDividendYield"
                /\ args' = <<dividendNum, priceNum>>
                /\ outcome' = calculateDividendYield(dividendNum, priceNum)
                /\ valuation' = [valuation EXCEPT !.dividendYield =
                               IF outcome'.kind = "return" THEN outcome'.value ELSE @]
           ELSE /\ valuation' = [valuation EXCEPT !.dividendYield = Null]
                /\ NoCall
    /\ pending' = Tail(pending)
    /\ UNCHANGED <<growth, profitability, safety, data, apiVars, searchVars>>
    /\ view' = Render(growth', profitability', safety', valuation')

\* an input of ValuationCalculator changes: InputField.handleChange passes the text
\* without its commas to the setter given as onChange
ValuationCalculator_handleChange ==
    /\ pending = <<>>
    /\ \E field \in ValuationCalculator_Fields, inputValue \in TypedTexts :
        LET rawValue == unformatNumber(inputValue) IN
        /\ valuation' = [valuation EXCEPT ![field] = rawValue]
        /\ pending' = Triggered(ValuationCalculator_Effects, valuation, valuation')
    /\ UNCHANGED <<growth, profitability, safety, data, apiVars, searchVars>>
    /\ NoCall
    /\ Cardinality(EditedFields(growth', profitability', safety', valuation', data)) <= MaxEdited
    /\ view' = Render(growth', profitability', safety', valuation')


\* ---- FinancialDataProvider ----

\* the financialData of a response of the data endpoint
FetchedData == {GET(code, now).body.financialData : code \in Codes, now \in 1..MaxClock}

\* setData(newData): the context value becomes a new object, so the
\* auto-fill effect of every component runs
SetData ==
    /\ pending = <<>>
    /\ \E newData \in FetchedData : data' = newData
    /\ pending' = <<"GrowthCalculator_AutoFill", "ProfitabilityCalculator_AutoFill",
                    "SafetyCalculator_AutoFill", "ValuationCalculator_AutoFill">>
    /\ UNCHANGED <<growth, profitability, safety, valuation, view, apiVars, searchVars>>
    /\ NoCall

\* a FinancialData in which some of the optional fields are left out and
\* some are ''
PartialData ==
    [revenue |-> <<"2", "0", "0", "0">>,
     netIncome |-> <<>>,
     equity |-> <<"5", "0", "0">>,
     stockPrice |-> <<>>,
     currentAssets |-> <<"9", "0", "0">>]

\* values a consumer of the context may pass to setData
ProvidedData == FetchedData \cup {PartialData}

\* setData(newData) called by any consumer of the context
FinancialDataProvider_setData ==
    /\ pending = <<>>
    /\ \E newData \in ProvidedData : data' = newData
    /\ pending' = <<"GrowthCalculator_AutoFill", "ProfitabilityCalculator_AutoFill",
                    "SafetyCalculator_AutoFill", "ValuationCalculator_AutoFill">>
    /\ UNCHANGED <<growth, profitability, safety, valuation, view, apiVars, searchVars>>
    /\ NoCall

\* clearData(): the context value becomes null; when it was null already
\* the state does not change and nothing is rendered again
FinancialDataProvider_clearData ==
    /\ pending = <<>>
    /\ data' = Null
    /\ pending' = IF data # Null
                  THEN <<"GrowthCalculator_AutoFill", "ProfitabilityCalculator_AutoFill",
                         "SafetyCalculator_AutoFill", "ValuationCalculator_AutoFill">>
                  ELSE pending
    /\ UNCHANGED <<growth, profitability, safety, valuation, view, apiVars, searchVars>>
    /\ NoCall

\* the components as first rendered, with no effect pending
UiIdle ==
    /\ growth = GrowthCalculator_InitialState
    /\ profitability = ProfitabilityCalculator_InitialState
    /\ safety = SafetyCalculator_InitialState
    /\ valuation = ValuationCalculator_InitialState
    /\ data = Null
    /\ pending = <<>>
    /\ view = Render(growth, profitability, safety, valuation)

\* every effect of a component, as run after its first render
MountEffects(name, effects) ==
    <<name>> \o [i \in DOMAIN effects |-> effects[i].name]

\* ------------------------------------------------------------------------
\* CompanySearch: the code input, the fetch button and handleFetchData
\* ------------------------------------------------------------------------

\* useState initial values of CompanySearch
SearchIdle ==
    /\ securitiesCode = <<>>
    /\ loading = FALSE
    /\ error = Null
    /\ companyName = Null

\* texts typed or pasted into the code input:
\* '', '72', '7203', '0007', '7a2-03', '72039'
CodeTexts ==
    {<<>>, <<"7", "2">>, <<"7", "2", "0", "3">>, <<"0", "0", "0", "7">>,
     <<"7", "a", "2", "-", "0", "3">>, <<"7", "2", "0", "3", "9">>}

\* value.slice(start, end) for 0 <= start <= end
Slice(value, start, end) ==
    SubSeq(value, start + 1, IF end < Len(value) THEN end ELSE Len(value))

\* a fetch that rejected
Rejected(res) == "rejected" \in DOMAIN res

\* an Error object with its message, and no exception
Error(message) == [isError |-> TRUE, message |-> message]

NoError == [isError |-> FALSE]

\* a state that holds a string (the other value of such a state is null)
Text(s) == [text |-> s]

\* the exception raised in the try block of handleFetchData for a response:
\* the rejection of fetch, a status outside 200..299, or a body whose error
\* field is a non-empty string
Thrown(res) ==
    IF Rejected(res) THEN res.reason
    ELSE IF res.status \notin 200..299 THEN Error("deeta shutoku ni shippai shimashita")
    ELSE IF "error" \in DOMAIN res.body /\ res.body.error # ""
    THEN Error(res.body.error)
    ELSE NoError

\* responses other than the one of the placeholder route: the route's own
\* error response (status 500), and a body carrying an error field under
\* status 200 as another server may send it
ErrorResponses ==
    {[status |-> 500, body |-> [error |-> "deeta shutokuchuu ni eraa ga hassei shimashita"]],
     [status |-> 200, body |-> [error |-> "deeta shutokuchuu ni eraa ga hassei shimashita"]]}

\* the answer to the request is an error response
RespondWithError ==
    /\ request # NoMessage
    /\ response = NoMessage
    /\ \E res \in ErrorResponses : response' = res
    /\ UNCHANGED <<request, uiVars, searchVars>>
    /\ NoCall

\* the request fails on the network: fetch rejects with a TypeError
FetchRejects ==
    /\ request # NoMessage
    /\ response = NoMessage
    /\ response' = [rejected |-> TRUE, reason |-> Error("Failed to fetch")]
    /\ UNCHANGED <<request, uiVars, searchVars>>
    /\ NoCall

\* the auto-fill effect of every calculator, run when the context value changes
AutoFillEffects ==
    <<"GrowthCalculator_AutoFill", "ProfitabilityCalculator_AutoFill",
      "SafetyCalculator_AutoFill", "ValuationCalculator_AutoFill">>

\* the code input without disabled={loading}
CompanySearch_onChange_enabledWhileLoading ==
    /\ pending = <<>>
    /\ \E text \in CodeTexts : securitiesCode' = Slice(SelectSeq(text, IsDigit), 0, 4)
    /\ UNCHANGED <<loading, error, companyName, apiVars, uiVars>>
    /\ NoCall

\* the code input without slice(0, 4)
CompanySearch_onChange_noSlice ==
    /\ pending = <<>>
    /\ ~loading
    /\ \E text \in CodeTexts : securitiesCode' = SelectSeq(text, IsDigit)
    /\ UNCHANGED <<loading, error, companyName, apiVars, uiVars>>
    /\ NoCall

\* the code input changes (it is disabled while loading): non-digits are
\* removed and the first four characters kept
CompanySearch_onChange ==
    /\ ~loading
    /\ pending = <<>>
    /\ \E text \in CodeTexts : securitiesCode' = Slice(SelectSeq(text, IsDigit), 0, 4)
    /\ UNCHANGED <<loading, error, companyName, apiVars, uiVars>>
    /\ NoCall

\* handleFetchData without setCompanyName(null)
handleFetchData_keepName ==
    /\ IF securitiesCode = <<>> \/ Len(securitiesCode) # 4
       THEN /\ error' = Text("4 keta no shouken koodo wo nyuuryoku shite kudasai")
            /\ UNCHANGED <<loading, companyName, request, response>>
       ELSE /\ loading' = TRUE
            /\ error' = Null
            /\ companyName' = companyName
            /\ request' = [code |-> securitiesCode]
            /\ response' = NoMessage
    /\ UNCHANGED <<securitiesCode, data, pending, growth, profitability, safety, valuation, view>>
    /\ NoCall

\* handleFetchData without the return after the validation error
handleFetchData_noReturn ==
    /\ loading' = TRUE
    /\ error' = IF securitiesCode = <<>> \/ Len(securitiesCode) # 4
                THEN Text("4 keta no shouken koodo wo nyuuryoku shite kudasai") ELSE Null
    /\ companyName' = Null
    /\ request' = [code |-> securitiesCode]
    /\ response' = NoMessage
    /\ UNCHANGED <<securitiesCode, data, pending, growth, profitability, safety, valuation, view>>
    /\ NoCall

\* handleFetchData up to its first await: an empty code or one whose length
\* is not 4 gives the validation error; otherwise loading is set, error and
\* companyName are cleared and /api/edinet/<code> is requested
handleFetchData ==
    /\ IF securitiesCode = <<>> \/ Len(securitiesCode) # 4
       THEN /\ error' = Text("4 keta no shouken koodo wo nyuuryoku shite kudasai")
            /\ UNCHANGED <<loading, companyName, request, response>>
       ELSE /\ loading' = TRUE
            /\ error' = Null
            /\ companyName' = Null
            /\ request' = [code |-> securitiesCode]
            /\ response' = NoMessage
    /\ UNCHANGED <<securitiesCode, data, pending, growth, profitability, safety, valuation, view>>
    /\ NoCall

\* a click on the fetch button, which is disabled while loading or while
\* the code does not have four characters
CompanySearch_onClick ==
    /\ ~(loading \/ Len(securitiesCode) # 4)
    /\ pending = <<>>
    /\ handleFetchData

\* handleFetchData called whatever the code is, while no request of it is
\* outstanding
CallHandleFetchData ==
    /\ ~loading
    /\ pending = <<>>
    /\ handleFetchData

\* the rest of handleFetchData with setLoading(false) at the end of the try
\* block instead of in finally
handleFetchData_resume_noFinally ==
    /\ loading
    /\ response # NoMessage
    /\ error = Null
    /\ pending = <<>>
    /\ IF Thrown(response) = NoError
       THEN /\ companyName' = Text(response.body.companyName)
            /\ data' = response.body.financialData
            /\ pending' = pending \o AutoFillEffects
            /\ UNCHANGED error
       ELSE /\ error' = Text(IF Thrown(response).isError
                        THEN Thrown(response).message
                        ELSE "fumei na eraa ga hassei shimashita")
            /\ UNCHANGED companyName
            /\ UNCHANGED <<data, pending>>
    /\ loading' = (Thrown(response) # NoError)
    /\ IF Thrown(response) # NoError
       THEN UNCHANGED <<request, response>>
       ELSE request' = NoMessage /\ response' = NoMessage
    /\ UNCHANGED <<securitiesCode, growth, profitability, safety, valuation, view>>
    /\ NoCall

\* the rest of handleFetchData without setData
handleFetchData_resume_nameOnly ==
    /\ loading
    /\ response # NoMessage
    /\ pending = <<>>
    /\ IF Thrown(response) = NoError
       THEN /\ companyName' = Text(response.body.companyName)
            /\ UNCHANGED <<data, pending>>
            /\ UNCHANGED error
       ELSE /\ error' = Text(IF Thrown(response).isError
                        THEN Thrown(response).message
                        ELSE "fumei na eraa ga hassei shimashita")
            /\ UNCHANGED companyName
            /\ UNCHANGED <<data, pending>>
    /\ loading' = FALSE
    /\ request' = NoMessage
    /\ response' = NoMessage
    /\ UNCHANGED <<securitiesCode, growth, profitability, safety, valuation, view>>
    /\ NoCall

\* the rest of handleFetchData with clearData called when an exception is caught
handleFetchData_resume_clearOnError ==
    /\ loading
    /\ response # NoMessage
    /\ pending = <<>>
    /\ IF Thrown(response) = NoError
       THEN /\ companyName' = Text(response.body.companyName)
            /\ data' = response.body.financialData
            /\ pending' = pending \o AutoFillEffects
            /\ UNCHANGED error
       ELSE /\ error' = Text(IF Thrown(response).isError
                        THEN Thrown(response).message
                        ELSE "fumei na eraa ga hassei shimashita")
            /\ UNCHANGED companyName
            /\ data' = Null
            /\ pending' = IF data # Null THEN pending \o AutoFillEffects ELSE pending
    /\ loading' = FALSE
    /\ request' = NoMessage
    /\ response' = NoMessage
    /\ UNCHANGED <<securitiesCode, growth, profitability, safety, valuation, view>>
    /\ NoCall

\* the rest of handleFetchData, once the response is there: on success
\* companyName and the shared data are set, on an exception error is set;
\* in both cases loading is reset
handleFetchData_resume ==
    /\ loading
    /\ response # NoMessage
    /\ pending = <<>>
    /\ IF Thrown(response) = NoError
       THEN /\ companyName' = Text(response.body.companyName)
            /\ data' = response.body.financialData
            /\ pending' = pending \o AutoFillEffects
            /\ UNCHANGED error
       ELSE /\ error' = Text(IF Thrown(response).isError
                        THEN Thrown(response).message
                        ELSE "fumei na eraa ga hassei shimashita")
            /\ UNCHANGED companyName
            /\ UNCHANGED <<data, pending>>
    /\ loading' = FALSE
    /\ request' = NoMessage
    /\ response' = NoMessage
    /\ UNCHANGED <<securitiesCode, growth, profitability, safety, valuation, view>>
    /\ NoCall

\* no calculator input has been typed into or filled in yet
CalculatorsPristine ==
    /\ growth = GrowthCalculator_InitialState
    /\ profitability = ProfitabilityCalculator_InitialState
    /\ safety = SafetyCalculator_InitialState
    /\ valuation = ValuationCalculator_InitialState
    /\ data = Null

\* the first manual entry into a calculator
TypeFirst ==
    /\ CalculatorsPristine
    /\ \/ GrowthCalculator_handleChange
       \/ ProfitabilityCalculator_handleChange
       \/ SafetyCalculator_handleChange
       \/ ValuationCalculator_handleChange

vars == <<fn, args, outcome, request, response,
          growth, profitability, safety, valuation, data, pending, view,
          securitiesCode, loading, error, companyName>>

\* operands a caller may hold: the tenths between -MaxOperand/10 and MaxOperand/10
Operands == {Tenths(k) : k \in -MaxOperand..MaxOperand}

\* ratios a caller may hand to a judgment function directly
Ratios == {Tenths(k) : k \in -MaxRatio..MaxRatio}

\* the ratio a judgment function can be called with in the current state:
\* the ratio the caller holds, or the ratio the last compute call returned
\* (a call that threw produced none)
JudgmentInputs ==
    IF Len(args) = 1 THEN {args[1]}
    ELSE IF outcome.kind = "return" THEN {outcome.value}
    ELSE {}

\* the operand pairs the calculators pass to the engine once the placeholder
\* figures of the data endpoint are filled in (numerator, denominator)
PlaceholderOperands ==
    {<<Num(500000), Num(100000)>>,     \* marketCap, revenue
     <<Num(5000), Num(3000)>>,         \* capex, depreciation
     <<Num(100000), Num(80000)>>,      \* revenueCurrentYear, revenueFourYearsAgo
     <<Num(10000), Num(200000)>>,      \* netIncome, equity
     <<Num(10000), Num(300000)>>,      \* netIncome, totalAssets
     <<Num(15000), Num(100000)>>,      \* operatingIncome, revenue
     <<Num(150000), Num(50000)>>,      \* currentAssets, currentLiabilities
     <<Num(200000), Num(300000)>>,     \* equity, totalAssets
     <<Num(500000), Num(10000)>>,      \* marketCap, netIncome
     <<Num(500000), Num(200000)>>,     \* marketCap, equity
     <<Num(100), Num(2500)>>}          \* annualDividend, stockPrice

Init ==
    /\ ApiIdle
    /\ UiIdle
    /\ SearchIdle
    /\ fn = "none"
    /\ outcome = [kind |-> "none"]
    /\ args \in {<<a, b>> : a \in Operands, b \in Operands}
                 \cup PlaceholderOperands
                 \cup {<<r>> : r \in Ratios}

CalculatePSR ==
    /\ Len(args) = 2
    /\ fn' = "calculatePSR"
    /\ outcome' = calculatePSR(args[1], args[2])
    /\ UNCHANGED args
    /\ UNCHANGED <<apiVars, uiVars, searchVars>>

CalculateCurrentRatio ==
    /\ Len(args) = 2
    /\ fn' = "calculateCurrentRatio"
    /\ outcome' = calculateCurrentRatio(args[1], args[2])
    /\ UNCHANGED args
    /\ UNCHANGED <<apiVars, uiVars, searchVars>>

CalculateEquityRatio ==
    /\ Len(args) = 2
    /\ fn' = "calculateEquityRatio"
    /\ outcome' = calculateEquityRatio(args[1], args[2])
    /\ UNCHANGED args
    /\ UNCHANGED <<apiVars, uiVars, searchVars>>

CalculateCapExRatio ==
    /\ Len(args) = 2
    /\ fn' = "calculateCapExRatio"
    /\ outcome' = calculateCapExRatio(args[1], args[2])
    /\ UNCHANGED args
    /\ UNCHANGED <<apiVars, uiVars, searchVars>>

CalculateRevenueGrowth ==
    /\ Len(args) = 2
    /\ fn' = "calculateRevenueGrowth"
    /\ outcome' = calculateRevenueGrowth(args[1], args[2])
    /\ UNCHANGED args
    /\ UNCHANGED <<apiVars, uiVars, searchVars>>

CalculateROE ==
    /\ Len(args) = 2
    /\ fn' = "calculateROE"
    /\ outcome' = calculateROE(args[1], args[2])
    /\ UNCHANGED args
    /\ UNCHANGED <<apiVars, uiVars, searchVars>>

CalculateROA ==
    /\ Len(args) = 2
    /\ fn' = "calculateROA"
    /\ outcome' = calculateROA(args[1], args[2])
    /\ UNCHANGED args
    /\ UNCHANGED <<apiVars, uiVars, searchVars>>

CalculateOperatingMargin ==
    /\ Len(args) = 2
    /\ fn' = "calculateOperatingMargin"
    /\ outcome' = calculateOperatingMargin(args[1], args[2])
    /\ UNCHANGED args
    /\ UNCHANGED <<apiVars, uiVars, searchVars>>

CalculatePER ==
    /\ Len(args) = 2
    /\ fn' = "calculatePER"
    /\ outcome' = calculatePER(args[1], args[2])
    /\ UNCHANGED args
    /\ UNCHANGED <<apiVars, uiVars, searchVars>>

CalculatePBR ==
    /\ Len(args) = 2
    /\ fn' = "calculatePBR"
    /\ outcome' = calculatePBR(args[1], args[2])
    /\ UNCHANGED args
    /\ UNCHANGED <<apiVars, uiVars, searchVars>>

CalculateDividendYield ==
    /\ Len(args) = 2
    /\ fn' = "calculateDividendYield"
    /\ outcome' = calculateDividendYield(args[1], args[2])
    /\ UNCHANGED args
    /\ UNCHANGED <<apiVars, uiVars, searchVars>>

GetPSRJudgment ==
    \E psr \in JudgmentInputs :
        /\ fn' = "getPSRJudgment"
        /\ args' = <<psr>>
        /\ outcome' = getPSRJudgment(psr)
        /\ UNCHANGED <<apiVars, uiVars, searchVars>>

GetCurrentRatioJudgment ==
    \E ratio \in JudgmentInputs :
        /\ fn' = "getCurrentRatioJudgment"
        /\ args' = <<ratio>>
        /\ outcome' = getCurrentRatioJudgment(ratio)
        /\ UNCHANGED <<apiVars, uiVars, searchVars>>

GetEquityRatioJudgment ==
    \E ratio \in JudgmentInputs :
        /\ fn' = "getEquityRatioJudgment"
        /\ args' = <<ratio>>
        /\ outcome' = getEquityRatioJudgment(ratio)
        /\ UNCHANGED <<apiVars, uiVars, searchVars>>

GetCapExRatioJudgment ==
    \E ratio \in JudgmentInputs :
        /\ fn' = "getCapExRatioJudgment"
        /\ args' = <<ratio>>
        /\ outcome' = getCapExRatioJudgment(ratio)
        /\ UNCHANGED <<apiVars, uiVars, searchVars>>

GetRevenueGrowthJudgment ==
    \E growthRate \in JudgmentInputs :
        /\ fn' = "getRevenueGrowthJudgment"
        /\ args' = <<growthRate>>
        /\ outcome' = getRevenueGrowthJudgment(growthRate)
        /\ UNCHANGED <<apiVars, uiVars, searchVars>>

GetROEJudgment ==
    \E roe \in JudgmentInputs :
        /\ fn' = "getROEJudgment"
        /\ args' = <<roe>>
        /\ outcome' = getROEJudgment(roe)
        /\ UNCHANGED <<apiVars, uiVars, searchVars>>

GetROAJudgment ==
    \E roa \in JudgmentInputs :
        /\ fn' = "getROAJudgment"
        /\ args' = <<roa>>
        /\ outcome' = getROAJudgment(roa)
        /\ UNCHANGED <<apiVars, uiVars, searchVars>>

GetOperatingMarginJudgment ==
    \E margin \in JudgmentInputs :
        /\ fn' = "getOperatingMarginJudgment"
        /\ args' = <<margin>>
        /\ outcome' = getOperatingMarginJudgment(margin)
        /\ UNCHANGED <<apiVars, uiVars, searchVars>>

GetPERJudgment ==
    \E per \in JudgmentInputs :
        /\ fn' = "getPERJudgment"
        /\ args' = <<per>>
        /\ outcome' = getPERJudgment(per)
        /\ UNCHANGED <<apiVars, uiVars, searchVars>>

GetPBRJudgment ==
    \E pbr \in JudgmentInputs :
        /\ fn' = "getPBRJudgment"
        /\ args' = <<pbr>>
        /\ outcome' = getPBRJudgment(pbr)
        /\ UNCHANGED <<apiVars, uiVars, searchVars>>

GetDividendYieldJudgment ==
    \E yieldPercent \in JudgmentInputs :
        /\ fn' = "getDividendYieldJudgment"
        /\ args' = <<yieldPercent>>
        /\ outcome' = getDividendYieldJudgment(yieldPercent)
        /\ UNCHANGED <<apiVars, uiVars, searchVars>>

Next ==
    \/ CalculatePSR
    \/ CalculateCurrentRatio
    \/ CalculateEquityRatio
    \/ CalculateCapExRatio
    \/ CalculateRevenueGrowth
    \/ CalculateROE
    \/ CalculateROA
    \/ CalculateOperatingMargin
    \/ CalculatePER
    \/ CalculatePBR
    \/ CalculateDividendYield
    \/ GetPSRJudgment
    \/ GetCurrentRatioJudgment
    \/ GetEquityRatioJudgment
    \/ GetCapExRatioJudgment
    \/ GetRevenueGrowthJudgment
    \/ GetROEJudgment
    \/ GetROAJudgment
    \/ GetOperatingMarginJudgment
    \/ GetPERJudgment
    \/ GetPBRJudgment
    \/ GetDividendYieldJudgment

Spec == Init /\ [][Next]_vars

\* the data endpoint on its own
InitApi ==
    /\ ApiIdle
    /\ UiIdle
    /\ SearchIdle
    /\ fn = "none"
    /\ args = <<>>
    /\ outcome = [kind |-> "none"]

NextApi ==
    \/ SendRequest
    \/ HandleGET

SpecApi == InitApi /\ [][NextApi]_vars

\* the calculators: the page has just been rendered for the first time and
\* every effect is still to run
InitUI ==
    /\ ApiIdle
    /\ SearchIdle
    /\ fn = "none"
    /\ args = <<>>
    /\ outcome = [kind |-> "none"]
    /\ growth = GrowthCalculator_InitialState
    /\ profitability = ProfitabilityCalculator_InitialState
    /\ safety = SafetyCalculator_InitialState
    /\ valuation = ValuationCalculator_InitialState
    /\ data = Null
    /\ pending = MountEffects("GrowthCalculator_AutoFill", GrowthCalculator_Effects)
                    \o MountEffects("ProfitabilityCalculator_AutoFill", ProfitabilityCalculator_Effects)
                    \o MountEffects("SafetyCalculator_AutoFill", SafetyCalculator_Effects)
                    \o MountEffects("ValuationCalculator_AutoFill", ValuationCalculator_Effects)
    /\ view = Render(growth, profitability, safety, valuation)

NextUI ==
    \/ GrowthCalculator_AutoFill
    \/ GrowthCalculator_PSREffect
    \/ GrowthCalculator_CapExRatioEffect
    \/ GrowthCalculator_RevenueGrowthEffect
    \/ GrowthCalculator_handleChange
    \/ ProfitabilityCalculator_AutoFill
    \/ ProfitabilityCalculator_ROEEffect
    \/ ProfitabilityCalculator_ROAEffect
    \/ ProfitabilityCalculator_OperatingMarginEffect
    \/ ProfitabilityCalculator_handleChange
    \/ SafetyCalculator_AutoFill
    \/ SafetyCalculator_CurrentRatioEffect
    \/ SafetyCalculator_EquityRatioEffect
    \/ SafetyCalculator_handleChange
    \/ ValuationCalculator_AutoFill
    \/ ValuationCalculator_PEREffect
    \/ ValuationCalculator_PBREffect
    \/ ValuationCalculator_DividendYieldEffect
    \/ ValuationCalculator_handleChange
    \/ SetData

SpecUI == InitUI /\ [][NextUI]_vars

\* the page: CompanySearch, the data endpoint and the calculators, which
\* take at most one manual entry, made before anything is fetched
InitSearch == InitUI

NextSearch ==
    \/ CompanySearch_onChange
    \/ CompanySearch_onClick
    \/ HandleGET
    \/ RespondWithError
    \/ FetchRejects
    \/ handleFetchData_resume
    \/ TypeFirst
    \/ GrowthCalculator_AutoFill
    \/ GrowthCalculator_PSREffect
    \/ GrowthCalculator_CapExRatioEffect
    \/ GrowthCalculator_RevenueGrowthEffect
    \/ ProfitabilityCalculator_AutoFill
    \/ ProfitabilityCalculator_ROEEffect
    \/ ProfitabilityCalculator_ROAEffect
    \/ ProfitabilityCalculator_OperatingMarginEffect
    \/ SafetyCalculator_AutoFill
    \/ SafetyCalculator_CurrentRatioEffect
    \/ SafetyCalculator_EquityRatioEffect
    \/ ValuationCalculator_AutoFill
    \/ ValuationCalculator_PEREffect
    \/ ValuationCalculator_PBREffect
    \/ ValuationCalculator_DividendYieldEffect

SpecSearch == InitSearch /\ [][NextSearch]_vars

\* a request is eventually answered or fails
Respond == HandleGET \/ RespondWithError \/ FetchRejects

\* an effect that is pending runs
RunEffect ==
    \/ GrowthCalculator_AutoFill
    \/ GrowthCalculator_PSREffect
    \/ GrowthCalculator_CapExRatioEffect
    \/ GrowthCalculator_RevenueGrowthEffect
    \/ ProfitabilityCalculator_AutoFill
    \/ ProfitabilityCalculator_ROEEffect
    \/ ProfitabilityCalculator_ROAEffect
    \/ ProfitabilityCalculator_OperatingMarginEffect
    \/ SafetyCalculator_AutoFill
    \/ SafetyCalculator_CurrentRatioEffect
    \/ SafetyCalculator_EquityRatioEffect
    \/ ValuationCalculator_AutoFill
    \/ ValuationCalculator_PEREffect
    \/ ValuationCalculator_PBREffect
    \/ ValuationCalculator_DividendYieldEffect

\* the step in which the effect at the head of the queue runs: it leaves the
\* queue, and the effects it triggers join the queue at the end
EffectRuns ==
    /\ pending # <<>>
    /\ \/ pending' = Tail(pending)
       \/ /\ Len(pending') >= Len(pending)
          /\ SubSeq(pending', 1, Len(pending) - 1) = Tail(pending)
    /\ pending' # pending

\* the steps that take the head of the queue are exactly the steps of the
\* effects
EffectRuns_IsRunEffect == [][EffectRuns <=> RunEffect]_vars

\* the page with a network that settles every request, a handler that
\* resumes when its promise settles, and effects that run after each commit
SpecSearchFair ==
    /\ SpecSearch
    /\ WF_vars(Respond)
    /\ WF_vars(handleFetchData_resume)
    /\ WF_pending(EffectRuns)

\* handleFetchData called directly, with any code the input can hold
NextHandler ==
    \/ CompanySearch_onChange
    \/ CallHandleFetchData
    \/ HandleGET
    \/ RespondWithError
    \/ FetchRejects
    \/ handleFetchData_resume
    \/ GrowthCalculator_AutoFill
    \/ GrowthCalculator_PSREffect
    \/ GrowthCalculator_CapExRatioEffect
    \/ GrowthCalculator_RevenueGrowthEffect
    \/ ProfitabilityCalculator_AutoFill
    \/ ProfitabilityCalculator_ROEEffect
    \/ ProfitabilityCalculator_ROAEffect
    \/ ProfitabilityCalculator_OperatingMarginEffect
    \/ SafetyCalculator_AutoFill
    \/ SafetyCalculator_CurrentRatioEffect
    \/ SafetyCalculator_EquityRatioEffect
    \/ ValuationCalculator_AutoFill
    \/ ValuationCalculator_PEREffect
    \/ ValuationCalculator_PBREffect
    \/ ValuationCalculator_DividendYieldEffect

SpecHandler == InitSearch /\ [][NextHandler]_vars

\* the provider with the calculators: any consumer sets or clears the data,
\* and one input may be typed into before the first data
NextProvider ==
    \/ FinancialDataProvider_setData
    \/ FinancialDataProvider_clearData
    \/ TypeFirst
    \/ GrowthCalculator_AutoFill
    \/ GrowthCalculator_PSREffect
    \/ GrowthCalculator_CapExRatioEffect
    \/ GrowthCalculator_RevenueGrowthEffect
    \/ ProfitabilityCalculator_AutoFill
    \/ ProfitabilityCalculator_ROEEffect
    \/ ProfitabilityCalculator_ROAEffect
    \/ ProfitabilityCalculator_OperatingMarginEffect
    \/ SafetyCalculator_AutoFill
    \/ SafetyCalculator_CurrentRatioEffect
    \/ SafetyCalculator_EquityRatioEffect
    \/ ValuationCalculator_AutoFill
    \/ ValuationCalculator_PEREffect
    \/ ValuationCalculator_PBREffect
    \/ ValuationCalculator_DividendYieldEffect

SpecProvider == InitUI /\ [][NextProvider]_vars

\* ------------------------------------------------------------------------
\* Properties of the ratio engine
\* ------------------------------------------------------------------------

ComputeFunctions ==
    {"calculatePSR", "calculateCurrentRatio", "calculateEquityRatio",
     "calculateCapExRatio", "calculateRevenueGrowth", "calculateROE",
     "calculateROA", "calculateOperatingMargin", "calculatePER",
     "calculatePBR", "calculateDividendYield"}

JudgmentFunctions ==
    {"getPSRJudgment", "getCurrentRatioJudgment", "getEquityRatioJudgment",
     "getCapExRatioJudgment", "getRevenueGrowthJudgment", "getROEJudgment",
     "getROAJudgment", "getOperatingMarginJudgment", "getPERJudgment",
     "getPBRJudgment", "getDividendYieldJudgment"}

\* the level the last judgment call returned
Level == outcome.judgment.level

\* the last call was f(x), for a number x
Called(f, x) == fn = f /\ args[1] = x

\* the level is lvl exactly when the ratio satisfies cond
Band(lvl, cond) == (Level = lvl) <=> cond

\* C1: in every compute function, whatever the numerator, a denominator
\* (second argument) that is 0 or negative ends the call in a thrown error and
\* no ratio is returned; a strictly positive denominator never throws.
C1_DenominatorGuard ==
    fn \in ComputeFunctions =>
        /\ args[2].n <= 0 => outcome.kind = "throw" /\ "value" \notin DOMAIN outcome
        /\ args[2].n > 0 => outcome.kind = "return"

\* calculateROE was called with a negative equity and threw
C1_Witness ==
    /\ fn = "calculateROE"
    /\ args = <<Num(1), Tenths(-5)>>
    /\ outcome.kind = "throw"

\* the enumeration of levels a judgment function is declared to return
LevelsOf(f) ==
    CASE f = "getPSRJudgment" -> PSRJudgmentLevel
      [] f \in {"getCurrentRatioJudgment", "getEquityRatioJudgment"} -> SafetyJudgmentLevel
      [] f \in {"getCapExRatioJudgment", "getRevenueGrowthJudgment"} -> GrowthJudgmentLevel
      [] f \in {"getROEJudgment", "getROAJudgment", "getOperatingMarginJudgment"} ->
             ProfitabilityJudgmentLevel
      [] f \in {"getPERJudgment", "getPBRJudgment", "getDividendYieldJudgment"} ->
             ValuationJudgmentLevel

\* C2: every judgment function is total: for every ratio (negative, zero, a
\* threshold, or large) it returns a judgment whose single level is a member of
\* the four-element enumeration of its metric family.
C2_JudgmentTotal ==
    fn \in JudgmentFunctions =>
        /\ outcome.kind = "judgment"
        /\ Level \in LevelsOf(fn)
        /\ Cardinality(LevelsOf(fn)) = 4

\* getRevenueGrowthJudgment was called with a negative rate below every threshold
C2_Witness ==
    /\ Called("getRevenueGrowthJudgment", Num(-200))
    /\ Level = "declining"

\* C3: getPSRJudgment: undervalued iff psr < 1, fair iff 1 <= psr < 2,
\* high iff 2 <= psr < 5, very-high iff psr >= 5.
C3_PSRBands ==
    fn = "getPSRJudgment" =>
        LET psr == args[1] IN
        /\ Band("undervalued", Lt(psr, Num(1)))
        /\ Band("fair", Le(Num(1), psr) /\ Lt(psr, Num(2)))
        /\ Band("high", Le(Num(2), psr) /\ Lt(psr, Num(5)))
        /\ Band("very-high", Ge(psr, Num(5)))

\* psr = 1 exactly is fair
C3_Witness == Called("getPSRJudgment", Num(1)) /\ Level = "fair"

\* C4: getPERJudgment: undervalued iff per < 10, fair iff 10 <= per < 20,
\* overvalued iff 20 <= per < 30, very-overvalued iff per >= 30;
\* getPBRJudgment: the same levels with the thresholds 1, 2, 3.
C4_PERPBRBands ==
    /\ fn = "getPERJudgment" =>
          LET per == args[1] IN
          /\ Band("undervalued", Lt(per, Num(10)))
          /\ Band("fair", Le(Num(10), per) /\ Lt(per, Num(20)))
          /\ Band("overvalued", Le(Num(20), per) /\ Lt(per, Num(30)))
          /\ Band("very-overvalued", Ge(per, Num(30)))
    /\ fn = "getPBRJudgment" =>
          LET pbr == args[1] IN
          /\ Band("undervalued", Lt(pbr, Num(1)))
          /\ Band("fair", Le(Num(1), pbr) /\ Lt(pbr, Num(2)))
          /\ Band("overvalued", Le(Num(2), pbr) /\ Lt(pbr, Num(3)))
          /\ Band("very-overvalued", Ge(pbr, Num(3)))

\* per = 10 exactly is fair
C4_Witness == Called("getPERJudgment", Num(10)) /\ Level = "fair"

\* C5: getCurrentRatioJudgment: excellent iff ratio >= 200, good iff
\* 150 <= ratio < 200, fair iff 100 <= ratio < 150, warning iff ratio < 100;
\* getEquityRatioJudgment: the same levels with the thresholds 50, 40, 20.
C5_SafetyBands ==
    /\ fn = "getCurrentRatioJudgment" =>
          LET ratio == args[1] IN
          /\ Band("excellent", Ge(ratio, Num(200)))
          /\ Band("good", Le(Num(150), ratio) /\ Lt(ratio, Num(200)))
          /\ Band("fair", Le(Num(100), ratio) /\ Lt(ratio, Num(150)))
          /\ Band("warning", Lt(ratio, Num(100)))
    /\ fn = "getEquityRatioJudgment" =>
          LET ratio == args[1] IN
          /\ Band("excellent", Ge(ratio, Num(50)))
          /\ Band("good", Le(Num(40), ratio) /\ Lt(ratio, Num(50)))
          /\ Band("fair", Le(Num(20), ratio) /\ Lt(ratio, Num(40)))
          /\ Band("warning", Lt(ratio, Num(20)))

\* a current ratio of exactly 200 is excellent
C5_Witness == Called("getCurrentRatioJudgment", Num(200)) /\ Level = "excellent"

\* the four profitability bands with the inclusive lower bounds hi > mid > lo
ProfitabilityBands(x, hi, mid, lo) ==
    /\ Band("excellent", Ge(x, Num(hi)))
    /\ Band("good", Le(Num(mid), x) /\ Lt(x, Num(hi)))
    /\ Band("fair", Le(Num(lo), x) /\ Lt(x, Num(mid)))
    /\ Band("poor", Lt(x, Num(lo)))

\* C6: getROEJudgment (thresholds 15 / 10 / 5), getROAJudgment (10 / 5 / 2) and
\* getOperatingMarginJudgment (20 / 10 / 5) give excellent / good / fair from
\* the threshold upwards, and poor for every value below the lowest threshold,
\* negative values included.
C6_ProfitabilityBands ==
    /\ fn = "getROEJudgment" => ProfitabilityBands(args[1], 15, 10, 5)
    /\ fn = "getROAJudgment" => ProfitabilityBands(args[1], 10, 5, 2)
    /\ fn = "getOperatingMarginJudgment" => ProfitabilityBands(args[1], 20, 10, 5)
    /\ fn \in {"getROEJudgment", "getROAJudgment", "getOperatingMarginJudgment"}
          /\ args[1].n < 0 => Level = "poor"

\* a negative ROA is poor
C6_Witness == Called("getROAJudgment", Tenths(-15)) /\ Level = "poor"

\* C7: getCapExRatioJudgment: strong iff ratio >= 1.5, moderate iff
\* 1.0 <= ratio < 1.5, stable iff 0.7 <= ratio < 1.0, declining iff ratio < 0.7;
\* getRevenueGrowthJudgment: strong iff rate >= 50, moderate iff 20 <= rate < 50,
\* stable iff 0 <= rate < 20, declining iff rate < 0.
C7_GrowthBands ==
    /\ fn = "getCapExRatioJudgment" =>
          LET ratio == args[1] IN
          /\ Band("strong", Ge(ratio, Tenths(15)))
          /\ Band("moderate", Le(Tenths(10), ratio) /\ Lt(ratio, Tenths(15)))
          /\ Band("stable", Le(Tenths(7), ratio) /\ Lt(ratio, Tenths(10)))
          /\ Band("declining", Lt(ratio, Tenths(7)))
    /\ fn = "getRevenueGrowthJudgment" =>
          LET growthRate == args[1] IN
          /\ Band("strong", Ge(growthRate, Num(50)))
          /\ Band("moderate", Le(Num(20), growthRate) /\ Lt(growthRate, Num(50)))
          /\ Band("stable", Le(Num(0), growthRate) /\ Lt(growthRate, Num(20)))
          /\ Band("declining", Lt(growthRate, Num(0)))

\* a growth rate of exactly 0 is stable
C7_Witness == Called("getRevenueGrowthJudgment", Num(0)) /\ Level = "stable"

\* C8: getDividendYieldJudgment: yield >= 4 gives undervalued, 2 <= yield < 4
\* fair, 1 <= yield < 2 overvalued, and yield < 1 (0 and negative values
\* included) very-overvalued.
C8_DividendYieldBands ==
    fn = "getDividendYieldJudgment" =>
        LET yieldPercent == args[1] IN
        /\ Ge(yieldPercent, Num(4)) => Level = "undervalued"
        /\ Le(Num(2), yieldPercent) /\ Lt(yieldPercent, Num(4)) => Level = "fair"
        /\ Le(Num(1), yieldPercent) /\ Lt(yieldPercent, Num(2)) => Level = "overvalued"
        /\ Lt(yieldPercent, Num(1)) => Level = "very-overvalued"

\* a yield of exactly 4 is in the high-yield band, tagged undervalued
C8_Witness == Called("getDividendYieldJudgment", Num(4)) /\ Level = "undervalued"

\* C9: for every numerator and every strictly positive denominator,
\* calculatePSR, calculatePER, calculatePBR and calculateCapExRatio return the
\* quotient of the first argument by the second, unscaled: the returned value
\* times the denominator is the numerator.
C9_PlainQuotient ==
    /\ fn \in {"calculatePSR", "calculatePER", "calculatePBR", "calculateCapExRatio"}
    /\ args[2].n > 0
    => /\ outcome.kind = "return"
       /\ Mul(outcome.value, args[2]) = args[1]

\* calculateCapExRatio(1, 1.5) returned the non-integer quotient 2/3
C9_Witness ==
    /\ fn = "calculateCapExRatio"
    /\ args = <<Num(1), Tenths(15)>>
    /\ outcome = Return(Rat(2, 3))

\* C10: for every numerator and every strictly positive denominator,
\* calculateCurrentRatio, calculateEquityRatio, calculateROE, calculateROA,
\* calculateOperatingMargin and calculateDividendYield return first argument /
\* second argument x 100: the returned value times the denominator is a
\* hundred times the numerator.
C10_PercentQuotient ==
    /\ fn \in {"calculateCurrentRatio", "calculateEquityRatio", "calculateROE",
               "calculateROA", "calculateOperatingMargin", "calculateDividendYield"}
    /\ args[2].n > 0
    => /\ outcome.kind = "return"
       /\ Mul(outcome.value, args[2]) = Mul(args[1], Num(100))

\* calculateEquityRatio(0.5, 2) returned 25 (the operands are not interchangeable)
C10_Witness ==
    /\ fn = "calculateEquityRatio"
    /\ args = <<Tenths(5), Num(2)>>
    /\ outcome = Return(Num(25))

\* C11: for every currentRevenue and every strictly positive pastRevenue,
\* calculateRevenueGrowth returns (currentRevenue - pastRevenue) / pastRevenue
\* x 100; the result is negative exactly when currentRevenue < pastRevenue and
\* zero exactly when they are equal; only pastRevenue is tested, so the call
\* throws exactly when pastRevenue <= 0, whatever currentRevenue is.
C11_RevenueGrowth ==
    fn = "calculateRevenueGrowth" =>
        LET currentRevenue == args[1]
            pastRevenue == args[2]
        IN  /\ pastRevenue.n <= 0 <=> outcome.kind = "throw"
            /\ pastRevenue.n > 0 =>
                  /\ outcome.kind = "return"
                  /\ Mul(outcome.value, pastRevenue)
                         = Mul(Sub(currentRevenue, pastRevenue), Num(100))
                  /\ outcome.value.n < 0 <=> Lt(currentRevenue, pastRevenue)
                  /\ outcome.value.n = 0 <=> currentRevenue = pastRevenue

\* calculateRevenueGrowth(-1, 2) returned -150: a non-positive current revenue
\* is accepted and the growth is negative
C11_Witness ==
    /\ fn = "calculateRevenueGrowth"
    /\ args = <<Num(-1), Num(2)>>
    /\ outcome = Return(Num(-150))

\* the compute call f(a, b) has returned ratio, and judgment (its classifier
\* applied to the returned ratio) has the level lvl
Scenario(f, a, b, ratio, judgment, lvl) ==
    fn = f /\ args = <<Num(a), Num(b)>> =>
        /\ outcome = Return(ratio)
        /\ judgment.kind = "judgment"
        /\ judgment.judgment.level = lvl

\* C12: the end-to-end scenarios: calculatePSR(500000, 100000) = 5, classified
\* very-high; calculateCurrentRatio(150000, 50000) = 300, excellent;
\* calculateROE(10000, 200000) = 5, fair; calculatePER(500000, 10000) = 50,
\* very-overvalued; calculateDividendYield(100, 2500) = 4, undervalued;
\* calculateRevenueGrowth(100000, 80000) = 25, moderate.
C12_EndToEnd ==
    /\ Scenario("calculatePSR", 500000, 100000, Num(5),
                getPSRJudgment(outcome.value), "very-high")
    /\ Scenario("calculateCurrentRatio", 150000, 50000, Num(300),
                getCurrentRatioJudgment(outcome.value), "excellent")
    /\ Scenario("calculateROE", 10000, 200000, Num(5),
                getROEJudgment(outcome.value), "fair")
    /\ Scenario("calculatePER", 500000, 10000, Num(50),
                getPERJudgment(outcome.value), "very-overvalued")
    /\ Scenario("calculateDividendYield", 100, 2500, Num(4),
                getDividendYieldJudgment(outcome.value), "undervalued")
    /\ Scenario("calculateRevenueGrowth", 100000, 80000, Num(25),
                getRevenueGrowthJudgment(outcome.value), "moderate")

\* calculateCurrentRatio(150000, 50000) has returned 300
C12_Witness ==
    /\ fn = "calculateCurrentRatio"
    /\ args = <<Num(150000), Num(50000)>>
    /\ outcome = Return(Num(300))

\* ratios that between them fall into every band of every judgment function:
\* every threshold of the source, and a value below all of them
BandSamples ==
    {Num(-1), Tenths(7), Tenths(15)}
        \cup {Num(k) : k \in {0, 1, 2, 3, 4, 5, 10, 15, 20, 30, 40, 50, 100, 150, 200}}

\* title, description and styling of a judgment
Presentation(j) == <<j.title, j.description, j.borderColor, j.textColor, j.darkTextColor>>

\* C16: within one judgment function, a ratio that receives the same level as
\* the ratio just judged receives the same title, description, borderColor,
\* textColor and darkTextColor, and a ratio that receives a different level
\* receives a different title.
C16_PresentationBoundToLevel ==
    fn \in JudgmentFunctions =>
        \A r \in BandSamples :
            LET other == Judge(fn, r).judgment IN
            /\ other.level = Level => Presentation(other) = Presentation(outcome.judgment)
            /\ other.level # Level => other.title # outcome.judgment.title

\* an equity ratio of 45 was judged good, with the title of that band
C16_Witness ==
    /\ Called("getEquityRatioJudgment", Num(45))
    /\ Level = "good"
    /\ outcome.judgment.title = "ryoukou"

\* the placeholder figures, as the strings the endpoint sends
PlaceholderFigures ==
    [revenue |-> <<"1", "0", "0", "0", "0", "0">>,
     marketCap |-> <<"5", "0", "0", "0", "0", "0">>,
     capex |-> <<"5", "0", "0", "0">>,
     depreciation |-> <<"3", "0", "0", "0">>,
     revenueCurrentYear |-> <<"1", "0", "0", "0", "0", "0">>,
     revenueFourYearsAgo |-> <<"8", "0", "0", "0", "0">>,
     netIncome |-> <<"1", "0", "0", "0", "0">>,
     equity |-> <<"2", "0", "0", "0", "0", "0">>,
     totalAssets |-> <<"3", "0", "0", "0", "0", "0">>,
     operatingIncome |-> <<"1", "5", "0", "0", "0">>,
     currentAssets |-> <<"1", "5", "0", "0", "0", "0">>,
     currentLiabilities |-> <<"5", "0", "0", "0", "0">>,
     stockPrice |-> <<"2", "5", "0", "0">>,
     annualDividend |-> <<"1", "0", "0">>]

\* C18: whatever code is requested, GET /api/edinet/[code] answers with a
\* success response whose financialData is the same fixed record; the code
\* appears in companyName only.
C18_MockEndpoint ==
    response # NoMessage =>
        /\ response.status = 200
        /\ response.body.financialData = PlaceholderFigures
        /\ response.body.companyName = <<"ki", "gyou", "ko", "-", "do">> \o request.code

\* the code 7007 was requested and answered
C18_Witness ==
    /\ request = [code |-> <<"7", "0", "0", "7">>]
    /\ response # NoMessage
    /\ response.body.financialData.revenue = <<"1", "0", "0", "0", "0", "0">>

\* ------------------------------------------------------------------------
\* The calculators
\* ------------------------------------------------------------------------

\* the eleven metrics: where the ratio is kept, the inputs it is computed
\* from (in the order of the engine's parameters) and the functions used
Metrics ==
    {[component |-> "growth", ratio |-> "psr", numerator |-> "marketCap", denominator |-> "revenue",
      compute |-> "calculatePSR", judgment |-> "getPSRJudgment"],
     [component |-> "growth", ratio |-> "capexRatio", numerator |-> "capex", denominator |-> "depreciation",
      compute |-> "calculateCapExRatio", judgment |-> "getCapExRatioJudgment"],
     [component |-> "growth", ratio |-> "revenueGrowth", numerator |-> "currentRevenue", denominator |-> "pastRevenue",
      compute |-> "calculateRevenueGrowth", judgment |-> "getRevenueGrowthJudgment"],
     [component |-> "profitability", ratio |-> "roe", numerator |-> "netIncome", denominator |-> "equity",
      compute |-> "calculateROE", judgment |-> "getROEJudgment"],
     [component |-> "profitability", ratio |-> "roa", numerator |-> "netIncome", denominator |-> "totalAssets",
      compute |-> "calculateROA", judgment |-> "getROAJudgment"],
     [component |-> "profitability", ratio |-> "operatingMargin", numerator |-> "operatingIncome", denominator |-> "revenue",
      compute |-> "calculateOperatingMargin", judgment |-> "getOperatingMarginJudgment"],
     [component |-> "safety", ratio |-> "currentRatio", numerator |-> "currentAssets", denominator |-> "currentLiabilities",
      compute |-> "calculateCurrentRatio", judgment |-> "getCurrentRatioJudgment"],
     [component |-> "safety", ratio |-> "equityRatio", numerator |-> "equity", denominator |-> "totalAssets",
      compute |-> "calculateEquityRatio", judgment |-> "getEquityRatioJudgment"],
     [component |-> "valuation", ratio |-> "per", numerator |-> "marketCapPER", denominator |-> "netIncome",
      compute |-> "calculatePER", judgment |-> "getPERJudgment"],
     [component |-> "valuation", ratio |-> "pbr", numerator |-> "marketCapPBR", denominator |-> "equity",
      compute |-> "calculatePBR", judgment |-> "getPBRJudgment"],
     [component |-> "valuation", ratio |-> "dividendYield", numerator |-> "annualDividend", denominator |-> "stockPrice",
      compute |-> "calculateDividendYield", judgment |-> "getDividendYieldJudgment"]}

\* the compute function named f applied to two operands
Compute(f, a, b) ==
    CASE f = "calculatePSR" -> calculatePSR(a, b)
      [] f = "calculateCurrentRatio" -> calculateCurrentRatio(a, b)
      [] f = "calculateEquityRatio" -> calculateEquityRatio(a, b)
      [] f = "calculateCapExRatio" -> calculateCapExRatio(a, b)
      [] f = "calculateRevenueGrowth" -> calculateRevenueGrowth(a, b)
      [] f = "calculateROE" -> calculateROE(a, b)
      [] f = "calculateROA" -> calculateROA(a, b)
      [] f = "calculateOperatingMargin" -> calculateOperatingMargin(a, b)
      [] f = "calculatePER" -> calculatePER(a, b)
      [] f = "calculatePBR" -> calculatePBR(a, b)
      [] f = "calculateDividendYield" -> calculateDividendYield(a, b)

StateOf(component) ==
    CASE component = "growth" -> growth
      [] component = "profitability" -> profitability
      [] component = "safety" -> safety
      [] component = "valuation" -> valuation

\* the current inputs of a metric, converted, and its stored and shown result
NumeratorOf(m) == Number(StateOf(m.component)[m.numerator])

DenominatorOf(m) == Number(StateOf(m.component)[m.denominator])

RatioOf(m) == StateOf(m.component)[m.ratio]

ShownFor(m) == view[m.component][m.ratio]

\* both inputs are numbers greater than zero; for the dividend yield the
\* dividend may also be zero
InputsValid(m) ==
    /\ IF m.ratio = "dividendYield"
       THEN Ge(NumeratorOf(m), Num(0))
       ELSE Gt(NumeratorOf(m), Num(0))
    /\ Gt(DenominatorOf(m), Num(0))

\* every effect has run
Settled == pending = <<>>

\* C13: a dividend of zero with a positive stock price is a valid input:
\* calculateDividendYield(0, price) returns 0, the stored yield is 0 and it
\* is shown as very-overvalued; for every other metric a numerator of zero
\* leaves the ratio null, whatever the denominator.
C13_ZeroDividend ==
    /\ fn = "calculateDividendYield" /\ args[1] = Num(0) => outcome = Return(Num(0))
    /\ Settled =>
          \A m \in Metrics :
              NumeratorOf(m) = Num(0) =>
                  IF m.ratio = "dividendYield"
                  THEN Gt(DenominatorOf(m), Num(0)) =>
                          /\ RatioOf(m) = Num(0)
                          /\ ShownFor(m) # Hidden
                          /\ ShownFor(m).level = "very-overvalued"
                  ELSE RatioOf(m) = Null

\* after a fetch the dividend was changed to '0': the yield was computed
\* from 0 and 2500 and stored
C13_Witness ==
    /\ Settled
    /\ valuation.annualDividend = <<"0">>
    /\ fn = "calculateDividendYield"
    /\ args = <<Num(0), Num(2500)>>
    /\ valuation.dividendYield = Num(0)
    /\ profitability.roe # Null

\* C17: in every calculator a judgment is shown for a ratio only while the
\* stored ratio is not null, and it is the judgment of that ratio; once the
\* effects have run, inputs that fail the guard leave the ratio null and no
\* judgment shown.
C17_JudgmentOnlyForRatio ==
    \A m \in Metrics :
        /\ ShownFor(m) # Hidden =>
              /\ RatioOf(m) # Null
              /\ Judged(ShownFor(m)) = Judge(m.judgment, RatioOf(m))
        /\ Settled /\ ~InputsValid(m) =>
              /\ RatioOf(m) = Null
              /\ ShownFor(m) = Hidden

\* after a fetch the current liabilities were changed to '0': no current
\* ratio and no judgment of it, while the equity ratio is shown as excellent
C17_Witness ==
    /\ Settled
    /\ safety.currentLiabilities = <<"0">>
    /\ safety.currentRatio = Null
    /\ view.safety.currentRatio = Hidden
    /\ view.safety.equityRatio # Hidden
    /\ view.safety.equityRatio.level = "excellent"

\* C19: whatever texts are typed and whatever is filled in from a fetch, a
\* calculator calls a compute function only with operands that are numbers
\* and a denominator greater than zero, so the call returns a ratio.
C19_EngineFailureUnreachable ==
    fn \in ComputeFunctions =>
        /\ ~IsNaN(args[1])
        /\ ~IsNaN(args[2])
        /\ Gt(args[2], Num(0))
        /\ outcome.kind = "return"

\* after a fetch the total assets of the safety section were changed to
\* '1,000' and the equity ratio was computed from 200000 and 1000
C19_Witness ==
    /\ safety.totalAssets = <<"1", "0", "0", "0">>
    /\ fn = "calculateEquityRatio"
    /\ args = <<Num(200000), Num(1000)>>
    /\ outcome = Return(Num(20000))

\* C20: once every pending effect has run, each stored ratio is not null
\* exactly when both of its current input texts convert to numbers greater
\* than zero (dividend >= 0 and price > 0 for the dividend yield), and it is
\* then the result of the compute function on the current inputs.
C20_RatiosNeverStale ==
    Settled =>
        \A m \in Metrics :
            /\ RatioOf(m) # Null <=> InputsValid(m)
            /\ InputsValid(m) =>
                  Return(RatioOf(m)) = Compute(m.compute, NumeratorOf(m), DenominatorOf(m))

\* after a fetch the equity of the valuation section was changed to '1,000'
\* and the PBR followed: 500000 / 1000
C20_Witness ==
    /\ Settled
    /\ data # Null
    /\ valuation.equity = <<"1", "0", "0", "0">>
    /\ valuation.pbr = Num(500)

\* ------------------------------------------------------------------------
\* Order of the bands
\* ------------------------------------------------------------------------

\* how favourable a level is within its family (more is better)
Favourability ==
    [i \in {"excellent", "strong"} |-> 3]
        @@ [i \in {"good", "moderate"} |-> 2]
        @@ [i \in {"stable", "high", "overvalued"} |-> 1]
        @@ [i \in {"warning", "poor", "declining", "very-high", "very-overvalued"} |-> 0]
        @@ [i \in {"undervalued"} |-> 3]
        @@ [i \in {"fair"} |-> 2]

\* favourability of a level as used by the judgment function f: in the
\* families of four levels with fair in third place, fair ranks below good
FavourabilityIn(f, lvl) ==
    IF lvl = "fair" /\ f \in {"getCurrentRatioJudgment", "getEquityRatioJudgment", "getROEJudgment",
                              "getROAJudgment", "getOperatingMarginJudgment"}
    THEN 1
    ELSE Favourability[lvl]

\* the judgment functions for which a lower ratio is the more favourable
LowerIsBetter == {"getPSRJudgment", "getPERJudgment", "getPBRJudgment"}

\* C29: every judgment function is monotone in its ratio: for PSR, PER and
\* PBR a larger ratio never receives a more favourable level, for the eight
\* other functions a larger ratio never receives a less favourable level.
\* Each judged ratio is compared with every threshold of the source and
\* with its two neighbours on the grid of tenths.
C29_Monotone ==
    fn \in JudgmentFunctions =>
        \A r \in BandSamples \cup {Sub(args[1], Tenths(1)), Sub(args[1], Tenths(-1))} :
            LET mine == FavourabilityIn(fn, Level)
                other == FavourabilityIn(fn, Judge(fn, r).judgment.level)
            IN  /\ Le(args[1], r) => IF fn \in LowerIsBetter THEN other <= mine ELSE other >= mine
                /\ Le(r, args[1]) => IF fn \in LowerIsBetter THEN other >= mine ELSE other <= mine

\* a return on assets of 3 was judged fair: below it lie poor ratios, above
\* it good and excellent ones
C29_Witness ==
    /\ Called("getROAJudgment", Num(3))
    /\ Level = "fair"
    /\ getROAJudgment(Num(1)).judgment.level = "poor"
    /\ getROAJudgment(Num(7)).judgment.level = "good"

\* ------------------------------------------------------------------------
\* CompanySearch and the page
\* ------------------------------------------------------------------------

\* every calculator input holds the fetched figure that belongs to it;
\* every ratio and the judgment shown for it follow from these figures
AllFetched ==
    /\ Settled
    /\ \A c \in {"growth", "profitability", "safety", "valuation"} :
           \A f \in {"revenue", "marketCap", "capex", "depreciation", "netIncome", "equity",
                     "totalAssets", "operatingIncome", "currentAssets", "currentLiabilities",
                     "stockPrice", "annualDividend"} \cap DOMAIN StateOf(c) :
               StateOf(c)[f] = PlaceholderFigures[f]
    /\ growth.currentRevenue = PlaceholderFigures.revenueCurrentYear
    /\ growth.pastRevenue = PlaceholderFigures.revenueFourYearsAgo
    /\ valuation.marketCapPER = PlaceholderFigures.marketCap
    /\ valuation.marketCapPBR = PlaceholderFigures.marketCap
    /\ growth.psr = Num(5) /\ view.growth.psr.level = "very-high"
    /\ growth.capexRatio = Rat(5000, 3000) /\ view.growth.capexRatio.level = "strong"
    /\ growth.revenueGrowth = Num(25) /\ view.growth.revenueGrowth.level = "moderate"
    /\ profitability.roe = Num(5) /\ view.profitability.roe.level = "fair"
    /\ profitability.roa = Rat(10000 * 100, 300000) /\ view.profitability.roa.level = "fair"
    /\ profitability.operatingMargin = Num(15) /\ view.profitability.operatingMargin.level = "good"
    /\ safety.currentRatio = Num(300) /\ view.safety.currentRatio.level = "excellent"
    /\ safety.equityRatio = Rat(200000 * 100, 300000) /\ view.safety.equityRatio.level = "excellent"
    /\ valuation.per = Num(50) /\ view.valuation.per.level = "very-overvalued"
    /\ valuation.pbr = Rat(5, 2) /\ view.valuation.pbr.level = "overvalued"
    /\ valuation.dividendYield = Num(4) /\ view.valuation.dividendYield.level = "undervalued"

\* C21: once CompanySearch has completed a successful fetch (companyName is
\* set), eventually every calculator input holds the fetched figure, whatever
\* was typed before, and the eleven ratios are PSR 5 very-high, CapEx ratio
\* 5/3 strong, revenue growth 25 moderate, ROE 5 fair, ROA 10/3 fair,
\* operating margin 15 good, current ratio 300 excellent, equity ratio 200/3
\* excellent, PER 50 very-overvalued, PBR 2.5 overvalued and dividend yield
\* 4 undervalued.
C21_FetchFillsEverything == (companyName # Null) ~> AllFetched

\* the fetch of code 7203 succeeded and every calculator shows the result
C21_Witness ==
    /\ companyName = Text(<<"ki", "gyou", "ko", "-", "do", "7", "2", "0", "3">>)
    /\ AllFetched

\* C22: loading is true only while a request of handleFetchData is
\* outstanding, and whenever loading is true it eventually becomes false
\* again, however the request ends.
C22_LoadingEnds ==
    /\ [](loading <=> request # NoMessage)
    /\ loading ~> ~loading

\* a fetch ended by a rejection and loading was reset
C22_Witness ==
    /\ ~loading
    /\ error = Text("Failed to fetch")
    /\ request = NoMessage

\* C23: CompanySearch never holds an error message and a company name at
\* the same time.
C23_ErrorOrName == ~(error # Null /\ companyName # Null)

\* a fetch failed after an earlier one had succeeded: the error is there,
\* the name of the earlier company is not
C23_Witness ==
    /\ error = Text("deeta shutoku ni shippai shimashita")
    /\ companyName = Null
    /\ data # Null

\* C24: a fetch that ends with a rejection, a status that is not OK or a
\* body with an error field sets error, leaves companyName null and changes
\* neither the shared data nor any calculator input or ratio.
C24_FailureKeepsData ==
    [][loading /\ ~loading' /\ Thrown(response) # NoError =>
          /\ error' # Null
          /\ companyName' = Null
          /\ UNCHANGED <<data, pending, growth, profitability, safety, valuation, view>>]_vars

\* a fetch was rejected after an earlier one had filled the calculators,
\* which still hold its figures
C24_Witness ==
    /\ ~loading
    /\ error = Text("Failed to fetch")
    /\ data = PlaceholderFigures
    /\ AllFetched

\* C25: while loading, the code cannot change and no further request can
\* start, the outstanding request is the one for the code in the input, and
\* a company name that appears is the one for that code.
C25_OneFetchAtATime ==
    /\ [](loading => request # NoMessage /\ request.code = securitiesCode)
    /\ [][loading => /\ securitiesCode' = securitiesCode
                     /\ request' = request \/ request' = NoMessage]_vars
    /\ [][companyName' # Null /\ companyName' # companyName =>
              companyName' = Text(<<"ki", "gyou", "ko", "-", "do">> \o securitiesCode')]_vars

\* the response for code 7203 has arrived while the input, still disabled,
\* holds 7203
C25_Witness ==
    /\ loading
    /\ response # NoMessage
    /\ securitiesCode = <<"7", "2", "0", "3">>
    /\ request.code = securitiesCode

\* C26: handleFetchData called with a code that is empty or not four
\* characters long sets the validation error and nothing else: no request
\* is made, loading stays false, companyName and the shared data stay as
\* they are.
C26_InvalidCodeRejected ==
    /\ [](error = Text("4 keta no shouken koodo wo nyuuryoku shite kudasai") =>
              ~loading /\ request = NoMessage)
    /\ [][/\ error' = Text("4 keta no shouken koodo wo nyuuryoku shite kudasai")
          /\ error' # error
          => /\ Len(securitiesCode) # 4
             /\ ~loading'
             /\ UNCHANGED <<securitiesCode, loading, companyName, request, response, data, pending,
                            growth, profitability, safety, valuation, view>>]_vars

\* after a successful fetch the code was shortened to 72 and handleFetchData
\* called: the validation error, with the name and the data still there
C26_Witness ==
    /\ error = Text("4 keta no shouken koodo wo nyuuryoku shite kudasai")
    /\ securitiesCode = <<"7", "2">>
    /\ companyName # Null
    /\ data # Null
    /\ ~loading

\* C27: the stored securities code always consists of at most four decimal
\* digits, and every request is for a code of exactly four digits.
C27_CodeIsDigits ==
    /\ Len(securitiesCode) <= 4
    /\ \A i \in DOMAIN securitiesCode : IsDigit(securitiesCode[i])
    /\ request # NoMessage =>
          /\ Len(request.code) = 4
          /\ \A i \in DOMAIN request.code : IsDigit(request.code[i])

\* code 0007 is being requested
C27_Witness ==
    /\ request = [code |-> <<"0", "0", "0", "7">>]
    /\ securitiesCode = <<"0", "0", "0", "7">>
    /\ response = NoMessage

\* for each auto-fill effect, its component and, for each input it sets,
\* the field of the shared data the input is set from
AutoFillTargets ==
    [GrowthCalculator_AutoFill |->
         [component |-> "growth",
          from |-> [revenue |-> "revenue", marketCap |-> "marketCap", capex |-> "capex",
                    depreciation |-> "depreciation", currentRevenue |-> "revenueCurrentYear",
                    pastRevenue |-> "revenueFourYearsAgo"]],
     ProfitabilityCalculator_AutoFill |->
         [component |-> "profitability",
          from |-> [netIncome |-> "netIncome", equity |-> "equity", totalAssets |-> "totalAssets",
                    operatingIncome |-> "operatingIncome", revenue |-> "revenue"]],
     SafetyCalculator_AutoFill |->
         [component |-> "safety",
          from |-> [currentAssets |-> "currentAssets", currentLiabilities |-> "currentLiabilities",
                    equity |-> "equity", totalAssets |-> "totalAssets"]],
     ValuationCalculator_AutoFill |->
         [component |-> "valuation",
          from |-> [marketCapPER |-> "marketCap", marketCapPBR |-> "marketCap",
                    netIncome |-> "netIncome", equity |-> "equity", stockPrice |-> "stockPrice",
                    annualDividend |-> "annualDividend"]]]

\* C28: a step of an auto-fill effect sets each input of its component whose
\* field is present and non-empty in the shared data to that field, and
\* leaves every other input, every ratio and every other component as it
\* was; when the shared data is null it changes no input and no ratio.
C28_AutoFillOnlyOverwrites ==
    [][pending # <<>> /\ Head(pending) \in DOMAIN AutoFillTargets =>
          LET target == AutoFillTargets[Head(pending)]
              next == [growth |-> growth', profitability |-> profitability',
                       safety |-> safety', valuation |-> valuation']
              before == StateOf(target.component)
              after == next[target.component]
          IN  /\ \A c \in {"growth", "profitability", "safety", "valuation"} \ {target.component} :
                     next[c] = StateOf(c)
              /\ \A f \in DOMAIN before :
                     after[f] = IF /\ data # Null
                                   /\ f \in DOMAIN target.from
                                   /\ target.from[f] \in DOMAIN data
                                   /\ data[target.from[f]] # <<>>
                                THEN data[target.from[f]]
                                ELSE before[f]]_vars

\* the partial data followed the placeholder figures: inputs whose field it
\* holds are overwritten, inputs whose field is '' or left out still hold
\* the placeholder figure
C28_Witness ==
    /\ data = PartialData
    /\ pending = <<>>
    /\ growth.revenue = PartialData.revenue
    /\ profitability.equity = PartialData.equity
    /\ profitability.netIncome = PlaceholderFigures.netIncome
    /\ valuation.stockPrice = PlaceholderFigures.stockPrice
    /\ growth.marketCap = PlaceholderFigures.marketCap

====
